---- MODULE Spec2Model ----
(***************************************************************************)
(* Import reconciliation pipeline of the parts quotation system:           *)
(* identifier keys, the cascading catalog matcher (enhancedFuzzyMatch),    *)
(* the chunked reconciliation driver (processExtractedParts) and the       *)
(* workspace handlers that edit the selection.                             *)
(*                                                                         *)
(* A JavaScript string is a sequence of characters; a character is a       *)
(* one-token name: "A" and "a" are a letter in its two cases, "1" a digit, *)
(* "SP" a white-space character, "-" "_" "." the ASCII separators,         *)
(* "FWDOT" is U+FF0E, "KDOT" is U+30FB, "FWHYPHEN" is U+FF0D and "MIDDOT"  *)
(* is U+00B7.                                                              *)
(***************************************************************************)
EXTENDS Integers, Sequences, FiniteSets, TLC

VARIABLES
    keyInput,        \* SpecKeys: the value handed to the key functions
    keyOutput,       \* SpecKeys: the four keys computed from keyInput
    matchInput,      \* SpecMatch: the identifier handed to the matcher
    lastMatch,     \* SpecMatch: result of enhancedFuzzyMatch (ImprovedPartsQuotationSystem.js)
    lastMatchApp,  \* SpecMatch: result of enhancedFuzzyMatch (App.js)
    extractInput,    \* SpecExtract: the text or workbook handed to an extractor
    extractOutput,   \* SpecExtract: the candidates the extractor returned
    partsData,       \* the catalog (React state partsData)
    selectedParts,   \* the selection (React state selectedParts)
    view,            \* React state view
    currentPage,     \* React state currentPage
    loading,         \* React state loading
    infoMessage,     \* React state infoMessage
    isAdmin,         \* React state isAdmin
    run,             \* closure state of the processExtractedParts call
    earlier,         \* closure of an earlier call whose continuation is still pending
    stored,          \* the item 'shipPartsData' of localStorage
    alerts,          \* number of alert() dialogs shown so far
    ops,             \* number of workspace operations the user has performed
    lastOp           \* the import handler invoked last, with its input (history)

vars == <<keyInput, keyOutput, matchInput, lastMatch, lastMatchApp,
          extractInput, extractOutput,
          partsData, selectedParts, view, currentPage, loading, infoMessage,
          isAdmin, run, earlier, stored, alerts, ops, lastOp>>

keyVars   == <<keyInput, keyOutput>>
matchVars == <<matchInput, lastMatch, lastMatchApp>>
extractVars == <<extractInput, extractOutput>>
pureVars  == <<keyVars, matchVars, extractVars>>
uiVars    == <<selectedParts, view, currentPage, loading, infoMessage>>
runVars   == <<isAdmin, run, alerts, ops>>

-----------------------------------------------------------------------------
(* Bounds *)

MaxLen == 3          \* longest identifier string that is enumerated
MaxCatalog == 2      \* most parts in an enumerated catalog
MaxCandidates == 41  \* longest candidate list handed to processExtractedParts
MaxOps == 2          \* most workspace operations in one behaviour

-----------------------------------------------------------------------------
(* Characters and strings *)

Chars == {"A", "a", "1", "SP", "-", "_", ".", "FWDOT", "KDOT", "FWHYPHEN", "MIDDOT"}

\* The characters the candidate identifiers of the matcher are drawn from.
MatchChars == {"A", "a", "SP", "-", "FWDOT", "FWHYPHEN"}

RECURSIVE StringsOver(_, _)
StringsOver(cs, n) ==
    IF n = 0 THEN {<<>>}
    ELSE LET shorter == StringsOver(cs, n - 1)
         IN  shorter \cup {Append(s, c) : s \in {t \in shorter : Len(t) = n - 1}, c \in cs}

\* JavaScript values: a string, or a non-string value together with the text
\* String(value) yields for it.
Str(s) == [t |-> "string", v |-> s]
Null == [t |-> "null", v |-> <<"n", "u", "l", "l">>]
Undefined == [t |-> "undefined", v |-> <<"u", "n", "d", "e", "f", "i", "n", "e", "d">>]
Num1 == [t |-> "number", v |-> <<"1">>]
Num11 == [t |-> "number", v |-> <<"1", "1">>]

\* String(x)
String(x) == x.v

\* Character classes of the source's regular expressions.
\* /\s+/g
WhitespaceClass == {"SP"}
\* /[-_．.・]/g : U+002D, U+005F, U+FF0E, U+002E, U+30FB
SeparatorClass == {"-", "_", "FWDOT", ".", "KDOT"}

\* The letters, each a token of its own; lower-casing maps a capital to the
\* small letter at the same place and leaves every other character alone.
UpperLetters ==
    <<"A", "B", "C", "D", "E", "F", "G", "H", "I", "J", "K", "L", "M",
      "N", "O", "P", "Q", "R", "S", "T", "U", "V", "W", "X", "Y", "Z">>
LowerLetters ==
    <<"a", "b", "c", "d", "e", "f", "g", "h", "i", "j", "k", "l", "m",
      "n", "o", "p", "q", "r", "s", "t", "u", "v", "w", "x", "y", "z">>
UpperClass == {UpperLetters[i] : i \in 1..26}
LowerClass == {LowerLetters[i] : i \in 1..26}
LowerOf == [c \in UpperClass |-> LowerLetters[CHOOSE i \in 1..26 : UpperLetters[i] = c]]

\* The Greek capital sigma U+03A3 has two small forms: U+03C3, and the final
\* form U+03C2 that toLowerCase yields when a cased letter comes before the
\* sigma and none after it, characters such as "." and ":" between them not
\* counting.
SigmaChars == {"U03A3", "U03C3", "U03C2"}
CasedClass == UpperClass \cup LowerClass \cup SigmaChars
CaseIgnorableClass == {".", ":", "FWDOT", "MIDDOT"}

toLowerCaseChar(c) ==
    IF c \in UpperClass THEN LowerOf[c] ELSE IF c = "U03A3" THEN "U03C3" ELSE c

isFinalSigma(s, i) ==
    /\ \E j \in 1..(i - 1) :
          s[j] \in CasedClass /\ \A k \in (j + 1)..(i - 1) : s[k] \in CaseIgnorableClass
    /\ ~\E j \in (i + 1)..Len(s) :
          s[j] \in CasedClass /\ \A k \in (i + 1)..(j - 1) : s[k] \in CaseIgnorableClass

\* s.toLowerCase()
toLowerCase(s) ==
    CHOOSE out \in {[i \in 1..Len(x) |->
        IF x[i] = "U03A3" /\ isFinalSigma(x, i) THEN "U03C2" ELSE toLowerCaseChar(x[i])] : x \in {s}} : TRUE

RECURSIVE trimStart(_)
trimStart(s) ==
    IF s # <<>> /\ Head(s) \in WhitespaceClass THEN trimStart(Tail(s)) ELSE s

RECURSIVE trimEnd(_)
trimEnd(s) ==
    IF s # <<>> /\ s[Len(s)] \in WhitespaceClass
    THEN trimEnd(SubSeq(s, 1, Len(s) - 1)) ELSE s

\* A trim that strips one white-space character per side only.
trim_once(s) ==
    LET a == IF s # <<>> /\ Head(s) \in WhitespaceClass THEN Tail(s) ELSE s
    IN  IF a # <<>> /\ a[Len(a)] \in WhitespaceClass
        THEN SubSeq(a, 1, Len(a) - 1) ELSE a

\* s.trim()
trim(s) == trimEnd(trimStart(s))

RECURSIVE removeChars(_, _)
removeChars(s, class) ==
    IF s = <<>> THEN <<>>
    ELSE IF Head(s) \in class THEN removeChars(Tail(s), class)
    ELSE <<Head(s)>> \o removeChars(Tail(s), class)

\* s.replace(/\s+/g, '')
removeWhitespace(s) == removeChars(s, WhitespaceClass)

\* s.replace(/[-_．.・]/g, '-')
replaceSeparators(s) ==
    [i \in 1..Len(s) |-> IF s[i] \in SeparatorClass THEN "-" ELSE s[i]]

-----------------------------------------------------------------------------
(* The four comparison keys, as the matcher computes them inline *)

\* String(x).trim()
exactKey(x) == trim(String(x))

\* String(x).toLowerCase().trim()
caseInsensitiveKey(x) == trim(toLowerCase(String(x)))

\* A no-space key that also lower-cases.
noSpaceKey_lower(x) == toLowerCase(removeWhitespace(String(x)))

\* String(x).replace(/\s+/g, '')
noSpaceKey(x) == removeWhitespace(String(x))

\* String(x).replace(/[-_．.・]/g, '-').replace(/\s+/g, '').toLowerCase()
fuzzyKey(x) == toLowerCase(removeWhitespace(replaceSeparators(String(x))))

-----------------------------------------------------------------------------
(* Catalog parts and objects *)

\* A catalog part: the eleven fields of a row of partsData. An id and a note
\* are strings (sequences of characters, a known text being one token).
Part(id, dn, name, price) ==
    [id |-> <<id>>, drawingNumber |-> dn, name |-> <<name>>,
     guidePrice |-> price, factoryPrice |-> price + 1, servicePrice |-> price + 2,
     guidePriceTaxed |-> price + 3, factoryPriceTaxed |-> price + 4,
     servicePriceTaxed |-> price + 5,
     note |-> <<>>, date |-> "2025-03-01"]

\* { ...obj, k1: v1, ... } : the literal's keys override those of obj.
Spread(obj, overrides) == overrides @@ obj

\* obj[key], undefined when the object has no such key.
Get(obj, key) == IF key \in DOMAIN obj THEN obj[key] ELSE "undefined"

\* The elements of an array; a callback is a function over them.
Elements(arr) == {arr[i] : i \in 1..Len(arr)}

\* array.find(pred): the index of the last element satisfying pred.
find_last(arr, pred) ==
    LET hits == {i \in 1..Len(arr) : pred[arr[i]]}
    IN  IF hits = {} THEN 0 ELSE CHOOSE i \in hits : \A j \in hits : j <= i

\* array.find(pred): the index of the first element satisfying pred, 0 when
\* find returns undefined.
find(arr, pred) ==
    LET hits == {i \in 1..Len(arr) : pred[arr[i]]}
    IN  IF hits = {} THEN 0 ELSE CHOOSE i \in hits : \A j \in hits : i <= j

-----------------------------------------------------------------------------
(* Catalog matcher *)

\* The value null returned when no tier matches.
NullResult == [isNull |-> TRUE]

\* enhancedFuzzyMatch of ImprovedPartsQuotationSystem.js: four tiers in order,
\* each a find over the catalog; a hit returns a copy of the part with matchType.
enhancedFuzzyMatch(id, parts) ==
    LET exactMatch == find(parts, [part \in Elements(parts) |-> exactKey(part.drawingNumber) = exactKey(id)])
        caseInsensitiveMatch ==
            find(parts, [part \in Elements(parts) |-> caseInsensitiveKey(part.drawingNumber) = caseInsensitiveKey(id)])
        noSpaceMatch == find(parts, [part \in Elements(parts) |-> noSpaceKey(part.drawingNumber) = noSpaceKey(id)])
        fuzzyMatch == find(parts, [part \in Elements(parts) |-> fuzzyKey(part.drawingNumber) = fuzzyKey(id)])
    IN  IF exactMatch # 0 THEN Spread(parts[exactMatch], [matchType |-> "exact"])
        ELSE IF caseInsensitiveMatch # 0
             THEN Spread(parts[caseInsensitiveMatch], [matchType |-> "caseInsensitive"])
        ELSE IF noSpaceMatch # 0 THEN Spread(parts[noSpaceMatch], [matchType |-> "noSpace"])
        ELSE IF fuzzyMatch # 0 THEN Spread(parts[fuzzyMatch], [matchType |-> "fuzzy"])
        ELSE NullResult

\* The value undefined returned by find in App.js.
UndefinedResult == [isUndefined |-> TRUE]

\* enhancedFuzzyMatch of App.js: one find on the lower-cased strings; the
\* catalog part itself is returned, without matchType.
enhancedFuzzyMatch_App(id, parts) ==
    LET m == find(parts, [part \in Elements(parts) |->
                     toLowerCase(String(part.drawingNumber)) = toLowerCase(String(id))])
    IN  IF m # 0 THEN parts[m] ELSE UndefinedResult

\* A matcher that writes matchType into the catalog part it found.
partsAfterMatch_inplace(id, parts) ==
    LET r == enhancedFuzzyMatch(id, parts)
    IN  IF r = NullResult THEN parts
        ELSE [i \in 1..Len(parts) |->
                 IF parts[i].id = r.id THEN Spread(parts[i], [matchType |-> r.matchType])
                 ELSE parts[i]]

\* The catalog array after enhancedFuzzyMatch(id, parts): find only reads the
\* parts and the result is a fresh object, so the array and its parts are as before.
partsAfterMatch(id, parts) == parts

-----------------------------------------------------------------------------
(* Inputs of the key functions and of the matcher *)

KeyInputs ==
    {Str(s) : s \in StringsOver(Chars, MaxLen)} \cup {Null, Undefined, Num1, Num11}

NotRun == [pending |-> TRUE]

\* The parts the enumerated catalogs are built from: a drawing number, its
\* lower-case twin, a twin with inner white space, a second part with the
\* same drawing number, and twins that differ in the separator.
PartPool ==
    { Part("ZB0001", Str(<<"A", "-">>), "n1", 10),
      Part("ZB0002", Str(<<"a", "-">>), "n2", 20),
      Part("ZB0003", Str(<<"A", "SP", "-">>), "n3", 30),
      Part("ZB0004", Str(<<"A", "-">>), "n4", 40),
      Part("ZB0005", Str(<<"a", "_">>), "n5", 50) }

RECURSIVE CatalogsOver(_, _)
CatalogsOver(pool, n) ==
    IF n = 0 THEN {<<>>}
    ELSE LET shorter == CatalogsOver(pool, n - 1)
         IN  shorter \cup
             {Append(c, p) : c \in {d \in shorter : Len(d) = n - 1},
                             p \in pool}

\* The catalog keeps ids unique.
UniqueIds(parts) == \A i, j \in 1..Len(parts) : parts[i].id = parts[j].id => i = j

\* The tier-precedence and fuzzy-equivalence examples of the specification.
Dn135A == <<"1", "3", "5", "-", "0", "1", "-", "0", "0", "3", "A">>
Dn135a == <<"1", "3", "5", "-", "0", "1", "-", "0", "0", "3", "a">>
Dn135Wide == <<"1", "3", "5", "FWDOT", "0", "1", "FWHYPHEN", "0", "0", "3", "A">>
Part135A == Part("ZB0135", Str(Dn135A), "n135A", 60)
Part135a == Part("ZB0136", Str(Dn135a), "n135a", 70)

ExampleCatalogs == {<<Part135A, Part135a>>, <<Part135a, Part135A>>, <<Part135A>>}
ExampleCandidates == {Str(Dn135A), Str(Dn135a), Str(Dn135Wide)}

\* A drawing number with a capital sigma before a blank, and its lower-case
\* twin.
DnSigma == <<"A", "U03A3", "SP", "B">>
DnSigmaLower == <<"a", "U03C2", "SP", "b">>
PartSigmaLower == Part("ZB0137", Str(DnSigmaLower), "nSigma", 80)

MatchCatalogs ==
    {c \in CatalogsOver(PartPool, MaxCatalog) : UniqueIds(c)} \cup ExampleCatalogs
        \cup {<<PartSigmaLower>>}

MatchCandidates ==
    {Str(s) : s \in StringsOver(MatchChars, MaxLen)} \cup ExampleCandidates
        \cup {Str(DnSigma)}

-----------------------------------------------------------------------------
(* Import candidates *)

\* A candidate record that is null (or missing) in the list.
NullCandidate == [isNullCandidate |-> TRUE]

\* A candidate record { 图号, 名称, 数量, 单价, 备注 }. A name is a string, a
\* known text being one token; a missing name reads as undefined, which "||"
\* treats like the empty string.
Candidate(dn, name, quantity, unitPrice, note) ==
    [identifier |-> Str(dn), name |-> name, quantity |-> quantity,
     unitPrice |-> unitPrice, note |-> note]

\* The candidates the enumerated lists cycle through: one written exactly as a
\* drawing number, one that is in no catalog, one with inner white space.
CandidatePool ==
    << Candidate(<<"A", "-">>, <<"shaft">>, 2, 5, <<"r1">>),
       Candidate(<<"A", "A">>, <<>>, 0, 7, <<>>),
       Candidate(<<"a", "SP", "-">>, <<"bolt">>, 3, 0, <<>>) >>

\* Positions at which an enumerated list holds a null record (0: nowhere).
BadPositions == {0, 13, 30}

CandidateList(n, bad) ==
    [i \in 1..n |-> IF i = bad THEN NullCandidate
                    ELSE CandidatePool[((i - 1) % Len(CandidatePool)) + 1]]

\* The end-to-end scenario of the specification.
ScenarioCandidates ==
    << Candidate(<<"m", "v", "1", "1", "0", "0", "-", "0", "2", "-", "0", "0", "2", "a">>, <<>>, 2, 0, <<>>),
       Candidate(<<"U", "N", "K", "N", "O", "W", "N", "-", "1">>, <<>>, 5, 0, <<>>) >>

CandidateLists ==
    {CandidateList(n, bad) : n \in 0..MaxCandidates, bad \in BadPositions}
        \cup {ScenarioCandidates}

\* loadSampleData: the two parts a first start puts in the catalog.
DnMV1100 == <<"M", "V", "1", "1", "0", "0", "-", "0", "2", "-", "0", "0", "2", "A">>
DnHC400 == <<"H", "C", "4", "0", "0", "-", "0", "1", "-", "0", "0", "0">>
sampleData ==
    << [id |-> <<"ZB0001">>, drawingNumber |-> Str(DnMV1100), name |-> <<"sample1">>,
        guidePrice |-> 3250000, factoryPrice |-> 2762500, servicePrice |-> 3900000,
        guidePriceTaxed |-> 3672500, factoryPriceTaxed |-> 3121625,
        servicePriceTaxed |-> 4407000, note |-> <<"important">>, date |-> "2025-03-01"],
       [id |-> <<"ZB0002">>, drawingNumber |-> Str(DnHC400), name |-> <<"sample2">>,
        guidePrice |-> 758000, factoryPrice |-> 644300, servicePrice |-> 909600,
        guidePriceTaxed |-> 856540, factoryPriceTaxed |-> 728059,
        servicePriceTaxed |-> 1027848, note |-> <<>>, date |-> "2025-03-02"] >>

\* The catalogs a session starts with: what loadData finds stored, or the
\* sample data.
SessionCatalogs ==
    { << Part("ZB0002", Str(<<"a", "-">>), "n2", 20),
         Part("ZB0001", Str(<<"A", "-">>), "n1", 10) >>,
      << Part("ZB0001", Str(<<"A", "-">>), "n1", 10) >>,
      sampleData }

-----------------------------------------------------------------------------
(* processExtractedParts *)

batchSize == 20

\* a || b for a value whose falsy form is `falsy`.
Or(a, falsy, b) == IF a = falsy THEN b ELSE a

Min(a, b) == IF a <= b THEN a ELSE b
Max(a, b) == IF a >= b THEN a ELSE b

\* The closure of one processExtractedParts call. origin records, for each
\* entry pushed, the position of the candidate it was built from, and chunks
\* and finishCalls count the processBatch slices and finishProcessing calls
\* (history only). reports holds the progress reports of the call.
NewRun(extractedParts, parts, caller) ==
    [status |-> "running", caller |-> caller,
     extractedParts |-> extractedParts, partsData |-> parts,
     matchedParts |-> <<>>, origin |-> <<>>,
     matchedCount |-> 0, newCount |-> 0, processedCount |-> 0,
     nextIndex |-> 0, reports |-> <<>>, chunks |-> 0, finishCalls |-> 0]

IdleRun == [NewRun(<<>>, <<>>, "none") EXCEPT !.status = "idle"]

\* An emptiness test that never reports an empty list.
isEmptyExtraction_never(extractedParts) == FALSE

\* extractedParts.length === 0
isEmptyExtraction(extractedParts) == Len(extractedParts) = 0

\* An accumulator that puts the new entry first.
pushEntry_front(arr, entry) == <<entry>> \o arr

\* matchedParts.push(entry)
pushEntry(arr, entry) == Append(arr, entry)

\* A matched entry that takes quantity 1 whatever the candidate says.
matchedEntry_unitQuantity(matchResult, part) ==
    Spread(matchResult,
           [importedId |-> part.identifier,
            quantity |-> 1,
            importedPrice |-> Or(part.unitPrice, 0, 0),
            importedRemark |-> Or(part.note, <<>>, <<>>)])

\* The entry built for a matched candidate.
matchedEntry(matchResult, part) ==
    Spread(matchResult,
           [importedId |-> part.identifier,
            quantity |-> Or(part.quantity, 0, 1),
            importedPrice |-> Or(part.unitPrice, 0, 0),
            importedRemark |-> Or(part.note, <<>>, <<>>)])

\* The entry synthesized for a candidate that matched nothing.
newEntry(part) ==
    [id |-> <<"NEW_">> \o String(part.identifier),
     drawingNumber |-> part.identifier,
     name |-> Or(part.name, <<>>, <<"unknown part">>),
     guidePrice |-> 0, factoryPrice |-> 0, servicePrice |-> 0,
     guidePriceTaxed |-> 0, factoryPriceTaxed |-> 0,
     servicePriceTaxed |-> Or(part.unitPrice, 0, 0),
     note |-> Or(part.note, <<>>, <<"imported: ">> \o String(part.identifier)),
     quantity |-> Or(part.quantity, 0, 1),
     isNew |-> TRUE,
     importedId |-> part.identifier,
     matchType |-> "none"]

\* The body of the try block raises: part['图号'] of a null record.
tryThrows(part) == part = NullCandidate

\* The catch block raises: its console.error message reads part['图号'] again.
catchThrows(part) == part = NullCandidate

\* An iteration that matches against the catalog of the moment.
processCandidate_current(r, i) ==
    LET part == r.extractedParts[i]
        matchResult == enhancedFuzzyMatch(part.identifier, partsData)
    IN  IF matchResult # NullResult
        THEN [r EXCEPT !.matchedCount = @ + 1,
                       !.matchedParts = pushEntry(@, matchedEntry(matchResult, part)),
                       !.origin = pushEntry(@, i),
                       !.processedCount = @ + 1]
        ELSE [r EXCEPT !.newCount = @ + 1,
                       !.matchedParts = pushEntry(@, newEntry(part)),
                       !.origin = pushEntry(@, i),
                       !.processedCount = @ + 1]

\* One iteration of the for loop over the batch (candidate i, counted from 1).
processCandidate(r, i) ==
    LET part == r.extractedParts[i]
    IN  IF tryThrows(part)
        THEN IF catchThrows(part) THEN [r EXCEPT !.status = "aborted"]
             ELSE [r EXCEPT !.processedCount = @ + 1]
        ELSE LET matchResult == enhancedFuzzyMatch(part.identifier, r.partsData)
                 after == partsAfterMatch(part.identifier, r.partsData)
             IN  IF matchResult # NullResult
                 THEN [r EXCEPT !.matchedCount = @ + 1,
                                !.matchedParts = pushEntry(@, matchedEntry(matchResult, part)),
                                !.origin = pushEntry(@, i),
                                !.processedCount = @ + 1,
                                !.partsData = after]
                 ELSE [r EXCEPT !.newCount = @ + 1,
                                !.matchedParts = pushEntry(@, newEntry(part)),
                                !.origin = pushEntry(@, i),
                                !.processedCount = @ + 1,
                                !.partsData = after]

RECURSIVE processLoop(_, _, _)
processLoop(r, i, endIndex) ==
    CHOOSE out \in {IF i > endIndex \/ x.status = "aborted" THEN x
                    ELSE processLoop(processCandidate(x, i), i + 1, endIndex) : x \in {r}} : TRUE

\* A processBatch that calls finishProcessing at once, whatever is left.
processBatch_finishAtOnce(r, startIndex) == [r EXCEPT !.status = "finishing"]

\* processBatch(startIndex): the closure after the slice. status is "waiting"
\* when a continuation was scheduled, "finishing" when finishProcessing is
\* called, "aborted" when an exception left the function.
processBatch(r, startIndex) ==
    LET n == Len(r.extractedParts)
    IN  IF startIndex >= n THEN [r EXCEPT !.status = "finishing"]
        ELSE LET endIndex == Min(startIndex + batchSize, n)
                 totalItems == IF n = 0 THEN 1 ELSE n
             IN  CHOOSE out \in
                     {LET r2 == [r1 EXCEPT !.reports = Append(@, <<r1.processedCount, totalItems>>)]
                      IN  IF r1.status = "aborted" THEN r1
                          ELSE IF endIndex < n
                               THEN [r2 EXCEPT !.status = "waiting", !.nextIndex = endIndex]
                               ELSE [r2 EXCEPT !.status = "finishing"] :
                      r1 \in {processLoop([r EXCEPT !.chunks = @ + 1], startIndex + 1, endIndex)}} : TRUE

\* The callers that call setLoading(true) before processExtractedParts.
LoadingCallers == {"upload", "handleDocumentUpload", "handleAdvancedQuotationUpload"}

\* The React state after a processBatch slice that left the closure as r.
\* handled: the exception, if any, reached a caller that reports it with
\* handleProcessingError.
AfterBatch(r, handled) ==
    /\ partsData' = IF partsData = run.partsData \/ run.status = "idle"
                    THEN r.partsData ELSE partsData
    /\ IF r.status = "finishing"
       THEN \* finishProcessing
            /\ selectedParts' = r.matchedParts
            /\ view' = "quotation"
            /\ currentPage' = 1
            /\ infoMessage' = <<"imported", Len(r.matchedParts), r.matchedCount, r.newCount>>
            /\ loading' = FALSE
            /\ run' = [r EXCEPT !.status = "done", !.finishCalls = @ + 1]
            /\ UNCHANGED alerts
       ELSE IF r.status = "waiting"
       THEN /\ infoMessage' = <<"progress", r.processedCount, Len(r.extractedParts)>>
            /\ loading' = (IF r.chunks = 1 /\ r.caller \in LoadingCallers THEN TRUE ELSE loading)
            /\ run' = r
            /\ UNCHANGED <<selectedParts, view, currentPage, alerts>>
       ELSE \* aborted
            /\ run' = r
            /\ IF handled
               THEN loading' = FALSE /\ infoMessage' = <<"null">> /\ alerts' = alerts + 1
               ELSE /\ infoMessage' = (IF r.chunks = 1 THEN <<"matching", Len(r.extractedParts)>>
                                       ELSE infoMessage)
                    /\ UNCHANGED <<loading, alerts>>
            /\ UNCHANGED <<selectedParts, view, currentPage>>

\* The callers of processExtractedParts: batchAddParts calls it without await
\* or catch; the upload handlers set loading and call it inside try/catch.
Callers == {"batchAddParts", "upload"}

\* processExtractedParts(extractedParts, partsData, ...) up to its return: the
\* empty-list exit, or the first processBatch slice.
StartRun ==
    /\ run.status = "idle"
    /\ \E extractedParts \in CandidateLists :
          IF isEmptyExtraction(extractedParts)
          THEN /\ loading' = FALSE
               /\ infoMessage' = <<"null">>
               /\ alerts' = alerts + 1
               /\ \E caller \in Callers :
                      run' = [NewRun(extractedParts, partsData, caller)
                                  EXCEPT !.status = "empty"]
               /\ UNCHANGED <<partsData, selectedParts, view, currentPage>>
          ELSE LET r == processBatch(NewRun(extractedParts, partsData, "caller"), 0)
               IN  \E caller \in Callers :
                       AfterBatch([r EXCEPT !.caller = caller], caller = "upload")
    /\ UNCHANGED <<pureVars, earlier, stored, lastOp, isAdmin, ops>>

\* processExtractedParts as a handler calls it: the effect on the React state
\* and the closure up to the return of the call. handled: the handler awaits
\* the call inside try/catch and reports an exception with
\* handleProcessingError.
processExtractedParts(extractedParts, caller, handled) ==
    IF isEmptyExtraction(extractedParts)
    THEN /\ loading' = FALSE
         /\ infoMessage' = <<"null">>
         /\ alerts' = alerts + 1
         /\ run' = [NewRun(extractedParts, partsData, caller) EXCEPT !.status = "empty"]
         /\ UNCHANGED <<partsData, selectedParts, view, currentPage>>
    ELSE AfterBatch(processBatch(NewRun(extractedParts, partsData, caller), 0), handled)

\* The deferred continuation setTimeout(() => processBatch(endIndex), 10).
ContinueRun ==
    /\ run.status = "waiting"
    /\ \E r \in {processBatch(run, run.nextIndex)} : AfterBatch(r, FALSE)
    /\ UNCHANGED <<pureVars, earlier, stored, lastOp, isAdmin, ops>>

\* The lists of overlapping calls: one chunk, two chunks, three chunks and
\* the scenario list.
OverlapLists ==
    {CandidateList(2, 0), CandidateList(batchSize + 3, 0), ScenarioCandidates}

\* processExtractedParts is called (batchAddParts, which neither awaits nor
\* catches), also while the run of the previous call waits for its next
\* chunk: the previous closure then stays alive in its timer.
StartOverlappingRun ==
    /\ run.status \in {"idle", "waiting"}
    /\ earlier.status = "idle"
    /\ earlier' = IF run.status = "waiting" THEN run ELSE earlier
    /\ \E extractedParts \in OverlapLists :
          \E r \in {processBatch(NewRun(extractedParts, partsData, "batchAddParts"), 0)} :
              AfterBatch(r, FALSE)
    /\ UNCHANGED <<pureVars, stored, lastOp, isAdmin, ops>>

\* A completion step that adds the run's entries to the selection.
finishedList_added(r) == selectedParts \o r.matchedParts

\* The array finishProcessing hands to setSelectedParts.
finishedList(r) == r.matchedParts

\* The React state after a processBatch slice of the earlier closure, run
\* from its timer, that left the closure as r.
AfterEarlierBatch(r) ==
    /\ IF r.status = "finishing"
       THEN \* finishProcessing
            /\ selectedParts' = finishedList(r)
            /\ view' = "quotation"
            /\ currentPage' = 1
            /\ infoMessage' = <<"imported", Len(r.matchedParts), r.matchedCount, r.newCount>>
            /\ loading' = FALSE
            /\ earlier' = [r EXCEPT !.status = "done", !.finishCalls = @ + 1]
       ELSE IF r.status = "waiting"
       THEN /\ infoMessage' = <<"progress", r.processedCount, Len(r.extractedParts)>>
            /\ earlier' = r
            /\ UNCHANGED <<selectedParts, view, currentPage, loading>>
       ELSE \* aborted: the exception leaves the timer callback
            /\ earlier' = r
            /\ UNCHANGED <<selectedParts, view, currentPage, loading, infoMessage>>
    /\ UNCHANGED <<partsData, alerts, run>>

\* The deferred continuation of the earlier closure.
ContinueEarlier ==
    /\ earlier.status = "waiting"
    /\ \E r \in {processBatch(earlier, earlier.nextIndex)} : AfterEarlierBatch(r)
    /\ UNCHANGED <<pureVars, stored, lastOp, isAdmin, ops>>

-----------------------------------------------------------------------------
(* Workspace handlers *)

Ids(arr) == {arr[i].id : i \in 1..Len(arr)}

\* array.filter(keep)
Filter(arr, keep) == SelectSeq(arr, LAMBDA x : keep[x])

\* array.map(f)
Map(arr, f) == [i \in 1..Len(arr) |-> f[arr[i]]]

UserOp == ops < MaxOps /\ ops' = ops + 1

\* A toggle that puts a newly selected part in front of the selection.
toggleSelection_front(selection, part) ==
    IF \E i \in 1..Len(selection) : selection[i].id = part.id
    THEN Filter(selection, [p \in Elements(selection) |-> p.id # part.id])
    ELSE <<Spread(part, [quantity |-> 1])>> \o selection

\* The selection handleSelectPart(part) sets.
toggleSelection(selection, part) ==
    LET isSelected == \E i \in 1..Len(selection) : selection[i].id = part.id
    IN  IF isSelected THEN Filter(selection, [p \in Elements(selection) |-> p.id # part.id])
        ELSE Append(selection, Spread(part, [quantity |-> 1]))

handleSelectPart ==
    /\ UserOp
    /\ view = "table"
    /\ \E k \in 1..Len(partsData) :
          selectedParts' = toggleSelection(selectedParts, partsData[k])
    /\ UNCHANGED <<pureVars, earlier, stored, lastOp, partsData, view, currentPage, loading,
                   infoMessage, isAdmin, run, alerts>>

\* What the quantity field can deliver to parseInt: no number (0 stands for
\* NaN), a negative and a positive number.
QuantityInputs == {0, -2, 3}

updatePartQuantity ==
    /\ UserOp
    /\ view = "quotation"
    /\ \E partId \in Ids(selectedParts), quantity \in QuantityInputs :
          selectedParts' =
              Map(selectedParts,
                  [part \in Elements(selectedParts) |->
                      IF part.id = partId
                      THEN Spread(part, [quantity |-> Max(1, Or(quantity, 0, 1))])
                      ELSE part])
    /\ UNCHANGED <<pureVars, earlier, stored, lastOp, partsData, view, currentPage, loading,
                   infoMessage, isAdmin, run, alerts>>

\* What the price field can deliver to parseFloat (0 stands for NaN as well).
PriceInputs == {0, 9}

updatePartCustomPrice ==
    /\ UserOp
    /\ view = "quotation"
    /\ \E partId \in Ids(selectedParts), price \in PriceInputs :
          selectedParts' =
              Map(selectedParts,
                  [part \in Elements(selectedParts) |->
                      IF part.id = partId
                      THEN Spread(part, [importedPrice |-> Or(price, 0, 0)])
                      ELSE part])
    /\ UNCHANGED <<pureVars, earlier, stored, lastOp, partsData, view, currentPage, loading,
                   infoMessage, isAdmin, run, alerts>>

NeedsReview(p) == Get(p, "matchType") \in {"fuzzy", "caseInsensitive", "noSpace"}

reviewAndConfirm ==
    /\ UserOp
    /\ \E confirmed \in BOOLEAN :
          IF Len(selectedParts) = 0
          THEN alerts' = alerts + 1 /\ UNCHANGED <<selectedParts, view>>
          ELSE IF (\E i \in 1..Len(selectedParts) : NeedsReview(selectedParts[i])) /\ ~confirmed
          THEN UNCHANGED <<selectedParts, view, alerts>>
          ELSE /\ selectedParts' =
                      Map(selectedParts,
                          [part \in Elements(selectedParts) |-> Spread(part, [humanReviewed |-> TRUE])])
               /\ view' = "quotation"
               /\ UNCHANGED alerts
    /\ UNCHANGED <<pureVars, earlier, stored, lastOp, partsData, currentPage, loading,
                   infoMessage, isAdmin, run>>

generateQuotation ==
    /\ UserOp
    /\ IF Len(selectedParts) = 0
       THEN alerts' = alerts + 1 /\ UNCHANGED view
       ELSE view' = "quotation" /\ UNCHANGED alerts
    /\ UNCHANGED <<pureVars, earlier, stored, lastOp, partsData, selectedParts, currentPage, loading,
                   infoMessage, isAdmin, run>>

backToList ==
    /\ UserOp
    /\ view = "quotation"
    /\ view' = "table"
    /\ currentPage' = 1
    /\ UNCHANGED <<pureVars, earlier, stored, lastOp, partsData, selectedParts, loading,
                   infoMessage, isAdmin, run, alerts>>

Passwords == {"admin123", "wrong"}

handleAdminLogin ==
    /\ UserOp
    /\ ~isAdmin
    /\ \E password \in Passwords :
          isAdmin' = (IF password = "admin123" THEN TRUE ELSE isAdmin)
    /\ alerts' = alerts + 1
    /\ UNCHANGED <<pureVars, earlier, stored, lastOp, partsData, uiVars, run>>

handleAdminLogout ==
    /\ UserOp
    /\ isAdmin
    /\ isAdmin' = FALSE
    /\ alerts' = alerts + 1
    /\ UNCHANGED <<pureVars, earlier, stored, lastOp, partsData, uiVars, run>>

\* The clear-database button (browser branch), after the user confirmed.
\* The item 'shipPartsData': absent, or the JSON text of a catalog. A part
\* holds strings and finite numbers only, which JSON.parse gives back as
\* JSON.stringify found them.
NoStore == [present |-> FALSE, text |-> <<>>]
JSON_stringify(data) == [present |-> TRUE, text |-> data]
JSON_parse(item) == item.text

\* safelyStoreData(key, data): setItem may throw (quota, storage disabled);
\* the exception is logged and the item stays as it was.
safelyStoreData(item, data, written) == IF written THEN JSON_stringify(data) ELSE item

\* saveDataToStorage(data) in the browser: the outcome of the write is not
\* looked at.
saveDataToStorage(data) ==
    \E written \in BOOLEAN : stored' = safelyStoreData(stored, data, written)

\* The clear-database button, confirmed; in the browser the stored item is
\* removed.
clearDatabase ==
    /\ UserOp
    /\ isAdmin
    /\ stored' = NoStore
    /\ partsData' = <<>>
    /\ selectedParts' = <<>>
    /\ alerts' = alerts + 1
    /\ UNCHANGED <<pureVars, earlier, lastOp, view, currentPage, loading, infoMessage,
                   isAdmin, run>>

-----------------------------------------------------------------------------
(* Regular expressions of the extractors *)

\* A character outside ASCII is the token "U" followed by its code point:
\* "U6570" "U91CF" are the two characters of the quantity marker, "U4E2A" and
\* "U4EF6" the two counting words, "UFF1A" the full-width colon, "U00D7" the
\* multiplication sign and "U2022" the bullet.
DigitChars == <<"0", "1", "2", "3", "4", "5", "6", "7", "8", "9">>
DigitClass == {DigitChars[i] : i \in 1..10}
LetterClass == UpperClass \cup LowerClass
\* \w
WordClass == DigitClass \cup LetterClass \cup {"_"}

DigitValue(c) == (CHOOSE i \in 1..10 : DigitChars[i] = c) - 1

\* parseInt of a string of digits
RECURSIVE parseInt(_)
parseInt(digits) ==
    IF digits = <<>> THEN 0
    ELSE 10 * parseInt(SubSeq(digits, 1, Len(digits) - 1)) + DigitValue(digits[Len(digits)])

\* One element of a pattern: between min and max characters of a class, as
\* many as possible (max -1: no upper limit).
Item(cls, min, max) == [cls |-> cls, min |-> min, max |-> max]
One(cls) == Item(cls, 1, 1)
Opt(cls) == Item(cls, 0, 1)
Plus(cls) == Item(cls, 1, -1)
Star(cls) == Item(cls, 0, -1)

\* The number of characters of s from position i on that are in cls, at most max.
RECURSIVE RunLength(_, _, _, _)
RunLength(s, i, cls, max) ==
    IF i > Len(s) \/ max = 0 \/ s[i] \notin cls THEN 0
    ELSE 1 + RunLength(s, i + 1, cls, IF max = -1 THEN -1 ELSE max - 1)

\* The positions at which a match of the elements k.. of a pattern that
\* starts at position i of s can end (the position after its last character).
RECURSIVE Ends(_, _, _, _)
Ends(items, k, s, i) ==
    IF k > Len(items) THEN {i}
    ELSE LET longest == RunLength(s, i, items[k].cls, items[k].max)
         IN  UNION {Ends(items, k + 1, s, i + n) : n \in items[k].min..longest}

\* \b between positions k and k + 1 of s
IsWordAt(s, k) == k \in 1..Len(s) /\ s[k] \in WordClass
Boundary(s, k) == IsWordAt(s, k) # IsWordAt(s, k + 1)

\* A regular expression \b(alt1|alt2|...)\b : alternatives in order, each a
\* sequence of elements; bounded: the \b on both sides are there.
Regex(alts, bounded) == [alts |-> alts, bounded |-> bounded]

\* The end of the match of alternative a at position i, 0 when there is none.
\* Every element is greedy and the regular expressions of the source never
\* have two matches of one alternative at one position that differ in where
\* they end, except in the length of a trailing greedy element: the longest.
AltEnd(re, a, s, i) ==
    LET ends == {j \in Ends(re.alts[a], 1, s, i) :
                    j > i /\ (re.bounded => Boundary(s, j - 1))}
    IN  IF (re.bounded => Boundary(s, i - 1)) /\ ends # {}
        THEN CHOOSE j \in ends : \A m \in ends : m <= j
        ELSE 0

MatchEnd(re, s, i) ==
    LET hits == {a \in 1..Len(re.alts) : AltEnd(re, a, s, i) # 0}
    IN  IF hits = {} THEN 0
        ELSE AltEnd(re, CHOOSE a \in hits : \A b \in hits : a <= b, s, i)

NoMatch == [index |-> 0, text |-> <<>>]

\* s.match(re): the leftmost match, with the position it starts at.
match(s, re) ==
    LET starts == {i \in 1..Len(s) : MatchEnd(re, s, i) # 0}
    IN  IF starts = {} THEN NoMatch
        ELSE LET i == CHOOSE i \in starts : \A j \in starts : i <= j
             IN  [index |-> i, text |-> SubSeq(s, i, MatchEnd(re, s, i) - 1)]

\* re.test(s)
test(re, s) == match(s, re) # NoMatch

\* /^...$/.test(s) for a sequence of elements
testWhole(items, s) == (Len(s) + 1) \in Ends(items, 1, s, 1)

\* s.indexOf(sub), 0 when sub does not occur
indexOf(s, sub) ==
    LET at == {i \in 1..(Len(s) - Len(sub) + 1) : SubSeq(s, i, i + Len(sub) - 1) = sub}
    IN  IF at = {} THEN 0 ELSE CHOOSE i \in at : \A j \in at : i <= j

-----------------------------------------------------------------------------
(* extractPartsFromPdfText *)

SeparatorChars == {"-", "."}
BulletChars == {"U2022", "."}
UpperDigitClass == UpperClass \cup DigitClass

\* The five shape patterns, in the order the loop tries them.
patterns ==
    << [type |-> "STANDARD_CODE",
        regex |-> Regex(<< <<Plus(DigitClass), One(SeparatorChars), Plus(DigitClass),
                            One(SeparatorChars), Plus(DigitClass), Opt(LetterClass)>> >>, TRUE)],
       [type |-> "SCREW_CODE",
        regex |-> Regex(<< <<One(UpperClass), Plus(DigitClass), One({"X"}), Plus(DigitClass),
                            Plus(LetterClass \cup DigitClass \cup SeparatorChars)>> >>, TRUE)],
       [type |-> "BEARING_CODE",
        regex |-> Regex(<< <<Item(UpperClass, 1, 3), Item(DigitClass, 2, 5)>>,
                           <<Item(DigitClass, 3, 5), Item(UpperClass, 1, 2),
                             Item(DigitClass, 0, 2)>> >>, TRUE)],
       [type |-> "COMPLEX_CODE",
        regex |-> Regex(<< <<Plus(DigitClass), One(LetterClass), One(SeparatorChars),
                            Plus(DigitClass), One(LetterClass), One(SeparatorChars),
                            Plus(DigitClass), Opt(LetterClass)>> >>, TRUE)],
       [type |-> "SPECIAL_CODE",
        regex |-> Regex(<< <<Item(UpperClass, 1, 3), One(SeparatorChars), Item(UpperClass, 1, 3),
                            Plus(DigitClass), One(BulletChars), Plus(DigitClass),
                            One(BulletChars), Plus(DigitClass), Opt(LetterClass)>> >>, TRUE)] >>

\* /^\s*\d+\.|\-|\*\s+/.test(line) || /[A-Z0-9]{3,}/.test(line)
looksLikeListItem(line) ==
    \/ Ends(<<Star(WhitespaceClass), Plus(DigitClass), One({"."})>>, 1, line, 1) # {}
    \/ \E i \in 1..Len(line) : line[i] = "-"
    \/ \E i \in 1..(Len(line) - 1) : line[i] = "*" /\ line[i + 1] \in WhitespaceClass
    \/ test(Regex(<< <<Item(UpperDigitClass, 3, -1)>> >>, FALSE), line)

\* /^\d{4}-\d{2}-\d{2}$/
isDateShape(s) ==
    testWhole(<<Item(DigitClass, 4, 4), One({"-"}), Item(DigitClass, 2, 2),
                One({"-"}), Item(DigitClass, 2, 2)>>, s)

\* /^\d+$/
isDigitsOnly(s) == testWhole(<<Plus(DigitClass)>>, s)

\* /^1[3-9]\d{9}$/
isPhoneShape(s) ==
    testWhole(<<One({"1"}), One({"3", "4", "5", "6", "7", "8", "9"}),
                Item(DigitClass, 9, 9)>>, s)

\* A filter that lets dates through.
isExcluded_noDate(partNumber) ==
    \/ testWhole(<<Item(DigitClass, 5, -1)>>, partNumber)
    \/ isPhoneShape(partNumber)

\* The filter of both branches: a date, five digits or more, a phone number.
isExcluded(partNumber) ==
    \/ isDateShape(partNumber)
    \/ testWhole(<<Item(DigitClass, 5, -1)>>, partNumber)
    \/ isPhoneShape(partNumber)

QuantityMarker == <<"U6570", "U91CF">>

startsWith(s, i, sub) ==
    i + Len(sub) - 1 <= Len(s) /\ SubSeq(s, i, i + Len(sub) - 1) = sub

\* The name after the part number: the text behind
\* line.indexOf(partNumber) + partNumber.length matched against
\* /^\s+([^\d\s][^<marker chars>]*?)\s+(?:<marker>|[0-9]|$)/, group 1 trimmed;
\* empty when there is no match.
nameAfter(line, partNumber) ==
    LET rest == SubSeq(line, indexOf(line, partNumber) + Len(partNumber), Len(line))
        lead == RunLength(rest, 1, WhitespaceClass, -1)
        p == lead + 1
        followed(q) ==
            LET w == RunLength(rest, q + 1, WhitespaceClass, -1)
            IN  /\ w >= 1
                /\ \/ q + w = Len(rest)
                   \/ rest[q + w + 1] \in DigitClass
                   \/ startsWith(rest, q + w + 1, QuantityMarker)
        qs == {q \in p..Len(rest) :
                  /\ \A k \in (p + 1)..q : rest[k] \notin {"U6570", "U91CF"}
                  /\ followed(q)}
    IN  IF lead = 0 \/ p > Len(rest) \/ rest[p] \in DigitClass \/ qs = {} THEN <<>>
        ELSE trim(SubSeq(rest, p, CHOOSE q \in qs : \A m \in qs : q <= m))

\* The digits captured at position i of the line by
\* /<marker>\s*[:：]?\s*(\d+)|<marker>[xX×]\s*(\d+)|(\d+)\s*[<counting words>pcs]/i,
\* empty when the expression does not match there.
quantityAt(line, i) ==
    LET digitsFrom(k) == SubSeq(line, k, k + RunLength(line, k, DigitClass, -1) - 1)
    IN  IF startsWith(line, i, QuantityMarker)
        THEN LET a == i + 2 + RunLength(line, i + 2, WhitespaceClass, -1)
                 b == a + RunLength(line, a, {":", "UFF1A"}, 1)
                 c == b + RunLength(line, b, WhitespaceClass, -1)
                 x == i + 2 + RunLength(line, i + 2, {"x", "X", "U00D7"}, 1)
                 y == x + RunLength(line, x, WhitespaceClass, -1)
             IN  IF digitsFrom(c) # <<>> THEN digitsFrom(c)
                 ELSE IF x = i + 3 THEN digitsFrom(y) ELSE <<>>
        ELSE LET d == RunLength(line, i, DigitClass, -1)
                 e == i + d + RunLength(line, i + d, WhitespaceClass, -1)
             IN  IF d >= 1 /\ e <= Len(line)
                       /\ line[e] \in {"U4E2A", "U4EF6", "p", "c", "s", "P", "C", "S"}
                 THEN SubSeq(line, i, i + d - 1) ELSE <<>>

\* The quantity of a line: parseInt of the leftmost capture, 1 when there is
\* none or it is 0.
quantityOf(line) ==
    LET at == {i \in 1..Len(line) : quantityAt(line, i) # <<>>}
    IN  IF at = {} THEN 1
        ELSE Or(parseInt(quantityAt(line, CHOOSE i \in at : \A j \in at : i <= j)), 0, 1)

\* The candidate pushed for a part number found on a line.
textCandidate(line, partNumber, type) ==
    Candidate(partNumber, Or(nameAfter(line, partNumber), <<>>, <<"unknown part">>),
              quantityOf(line), 0, <<"extracted", type>>)

\* The state of the scan: the candidates, the seen set, and for each
\* candidate the line it was taken from (history).
EmptyScan == [partCandidates |-> <<>>, seenParts |-> {}, fromLine |-> <<>>]

pushCandidate(scan, n, line, partNumber, type) ==
    [partCandidates |-> Append(scan.partCandidates, textCandidate(line, partNumber, type)),
     seenParts |-> scan.seenParts \cup {partNumber},
     fromLine |-> Append(scan.fromLine, n)]

\* The loop over the shape patterns from pattern k on: the part number and
\* type accepted on this line, or NoMatch.
RECURSIVE firstAccepted(_, _, _)
firstAccepted(line, seenParts, k) ==
    IF k > Len(patterns) THEN NoMatch
    ELSE LET m == match(line, patterns[k].regex)
         IN  IF m # NoMatch /\ ~isExcluded(m.text)
                   /\ Len(m.text) >= 3 /\ ~isDigitsOnly(m.text) /\ m.text \notin seenParts
             THEN [index |-> k, text |-> m.text]
             ELSE firstAccepted(line, seenParts, k + 1)

\* The body of the loop over the lines, for line n.
scanLine(scan, n, line) ==
    IF ~looksLikeListItem(line) THEN scan
    ELSE LET found == firstAccepted(line, scan.seenParts, 1)
             specialMatch == match(line, Regex(<< <<Item(UpperDigitClass, 5, -1)>> >>, TRUE))
         IN  IF found # NoMatch
             THEN pushCandidate(scan, n, line, found.text, patterns[found.index].type)
             ELSE IF /\ test(Regex(<< <<Item(UpperDigitClass, 5, -1)>> >>, FALSE), line)
                     /\ specialMatch # NoMatch
                     /\ specialMatch.text \notin scan.seenParts
                     /\ ~isExcluded(specialMatch.text)
             THEN pushCandidate(scan, n, line, specialMatch.text, "SPECIAL_FORMAT")
             ELSE scan

RECURSIVE scanLines(_, _, _)
scanLines(scan, lines, n) ==
    IF n > Len(lines) THEN scan
    ELSE scanLines(scanLine(scan, n, lines[n]), lines, n + 1)

\* extractPartsFromPdfText(text), the text given as its lines (text.split('\n')).
scanText(lines) == scanLines(EmptyScan, lines, 1)

extractPartsFromPdfText(lines) == scanText(lines).partCandidates

-----------------------------------------------------------------------------
(* extractGenericPartsList *)

\* A removeDuplicates that keeps the last item of every identifier.
removeDuplicates_keepLast(data) ==
    LET keep == {i \in 1..Len(data) :
                    \A j \in (i + 1)..Len(data) : data[j].identifier # data[i].identifier}
        RECURSIVE pick(_)
        pick(i) == IF i > Len(data) THEN <<>>
                   ELSE IF i \in keep THEN <<data[i]>> \o pick(i + 1) ELSE pick(i + 1)
    IN  pick(1)

\* removeDuplicates(data): the first item of every identifier.
removeDuplicates(data) ==
    LET keep == {i \in 1..Len(data) :
                    \A j \in 1..(i - 1) : data[j].identifier # data[i].identifier}
        RECURSIVE pick(_)
        pick(i) == IF i > Len(data) THEN <<>>
                   ELSE IF i \in keep THEN <<data[i]>> \o pick(i + 1) ELSE pick(i + 1)
    IN  pick(1)

\* String(n) for a natural number
RECURSIVE decimal(_)
decimal(n) ==
    IF n < 0 THEN <<"-">> \o decimal(0 - n)
    ELSE IF n < 10 THEN <<DigitChars[n + 1]>>
    ELSE decimal(n \div 10) \o <<DigitChars[(n % 10) + 1]>>

Num(n) == [t |-> "number", v |-> decimal(n)]

\* XLSX.utils.encode_cell({ r, c }) for the first columns
ColumnNames == <<"A", "B", "C">>
encode_cell(r, c) == <<ColumnNames[c + 1]>> \o decimal(r + 1)

\* A sheet: its name, its range (absent when the sheet has no '!ref') and
\* its cells by <<row, column>>; a cell holds its value v.
Sheet(name, cells) ==
    [name |-> name, cells |-> cells] @@
    (IF DOMAIN cells = {} THEN <<>>
     ELSE "ref" :> [s |-> [r |-> 0, c |-> 0],
                    e |-> [r |-> CHOOSE r \in {p[1] : p \in DOMAIN cells} :
                                     \A p \in DOMAIN cells : p[1] <= r,
                           c |-> CHOOSE c \in {p[2] : p \in DOMAIN cells} :
                                     \A p \in DOMAIN cells : p[2] <= c]])

\* String(cell.w || cell.v || '').trim() : a cell without formatted text,
\* whose value is falsy when it is the empty string or the number 0.
cellValue(cell) ==
    IF cell.v = Str(<<>>) \/ cell.v = Num(0) THEN <<>> ELSE trim(String(cell.v))

\* The test a cell value passes to count as an identifier.
IdentifierChars == LetterClass \cup DigitClass \cup {"-", ".", "/"}
looksLikeIdentifier(value) ==
    /\ value # <<>>
    /\ Len(value) >= 3
    /\ ~isDigitsOnly(value)
    /\ \/ testWhole(<<Plus(IdentifierChars)>>, value)
       \/ testWhole(<<Plus(LetterClass), Plus(DigitClass)>>, value)
       \/ testWhole(<<Plus(DigitClass), Plus(LetterClass), Star(DigitClass)>>, value)
       \/ testWhole(<<One(LetterClass), Plus(DigitClass), One(LetterClass),
                      Plus(DigitClass)>>, value)
       \/ testWhole(<<Plus(DigitClass), One(SeparatorChars), Plus(DigitClass),
                      One(SeparatorChars), Plus(DigitClass), Opt(LetterClass)>>, value)

\* !isNaN(v) for a number or a string of an optional sign, digits and white
\* space; parseInt(v) || 1, the sign of a leading "-" kept.
SignChars == {"-", "+"}
isNaN(v) ==
    /\ v.t = "string"
    /\ ~testWhole(<<Star(DigitClass)>>, trim(v.v))
    /\ ~testWhole(<<One(SignChars), Plus(DigitClass)>>, trim(v.v))
neighbourQuantity(sheet, r, c) ==
    IF c + 1 <= sheet.ref.e.c /\ <<r, c + 1>> \in DOMAIN sheet.cells
          /\ ~isNaN(sheet.cells[<<r, c + 1>>].v)
    THEN LET text == trimStart(String(sheet.cells[<<r, c + 1>>].v))
             signed == text # <<>> /\ text[1] \in SignChars
             digits == IF signed THEN Tail(text) ELSE text
             magnitude == parseInt(SubSeq(digits, 1, RunLength(digits, 1, DigitClass, -1)))
         IN  Or(IF signed /\ text[1] = "-" THEN 0 - magnitude ELSE magnitude, 0, 1)
    ELSE 1

\* The candidate pushed for the cell at row r, column c, if any.
cellCandidates(sheet, r, c) ==
    IF <<r, c>> \in DOMAIN sheet.cells /\ looksLikeIdentifier(cellValue(sheet.cells[<<r, c>>]))
    THEN << Candidate(cellValue(sheet.cells[<<r, c>>]), <<>>, neighbourQuantity(sheet, r, c), 0,
                      <<"sheet", sheet.name, "cell">> \o encode_cell(r, c)) >>
    ELSE <<>>

\* The loops over the cells of a sheet, row by row and column by column.
RECURSIVE scanCells(_, _, _)
scanCells(sheet, r, c) ==
    IF r > sheet.ref.e.r THEN <<>>
    ELSE IF c > sheet.ref.e.c THEN scanCells(sheet, r + 1, sheet.ref.s.c)
    ELSE cellCandidates(sheet, r, c) \o scanCells(sheet, r, c + 1)

RECURSIVE scanSheets(_, _)
scanSheets(workbook, n) ==
    IF n > Len(workbook) THEN <<>>
    ELSE (IF "ref" \notin DOMAIN workbook[n] THEN <<>>
          ELSE scanCells(workbook[n], workbook[n].ref.s.r, workbook[n].ref.s.c))
         \o scanSheets(workbook, n + 1)

\* extractGenericPartsList(workbook), the workbook given as its sheets in
\* the order of SheetNames.
extractGenericPartsList(workbook) == removeDuplicates(scanSheets(workbook, 1))

-----------------------------------------------------------------------------
(* The texts and workbooks handed to the extractors *)

\* The text extractTextFromPdf and extractTextFromDoc return when the parsing
\* library is not loaded, as its lines.
MockText ==
    << <<>>,
       <<"SP", "SP", "SP", "SP", "SP", "SP", "SP", "SP", "SP", "SP", "SP", "SP",
          "U5BA2", "U6237", "U8BA2", "U5355", "U5355">>,
       <<"SP", "SP", "SP", "SP", "SP", "SP", "SP", "SP", "SP", "SP", "SP", "SP",
          "U8BA2", "U5355", "U53F7", ":", "SP", "O", "D", "-", "1", "2", "3", "4", "5",
          "6">>,
       <<"SP", "SP", "SP", "SP", "SP", "SP", "SP", "SP", "SP", "SP", "SP", "SP",
          "U65E5", "U671F", ":", "SP", "2", "0", "2", "5", "-", "0", "3", "-", "1",
          "5">>,
       <<"SP", "SP", "SP", "SP", "SP", "SP", "SP", "SP", "SP", "SP", "SP", "SP">>,
       <<"SP", "SP", "SP", "SP", "SP", "SP", "SP", "SP", "SP", "SP", "SP", "SP",
          "U914D", "U4EF6", "U6E05", "U5355", ":">>,
       <<"SP", "SP", "SP", "SP", "SP", "SP", "SP", "SP", "SP", "SP", "SP", "SP", "1",
          ".", "SP", "1", "3", "5", "-", "0", "1", "-", "0", "0", "3", "A", "SP",
          "U8F93", "U5165", "U8F74", "U603B", "U6210", "SP", "U6570", "U91CF", ":", "SP",
          "2">>,
       <<"SP", "SP", "SP", "SP", "SP", "SP", "SP", "SP", "SP", "SP", "SP", "SP", "2",
          ".", "SP", "M", "1", "0", "X", "2", "5", "G", "B", "3", "2", ".", "1", "-",
          "8", "8", "SP", "U666E", "U901A", "U87BA", "U6813", "SP", "U6570", "U91CF",
          ":", "SP", "1", "0">>,
       <<"SP", "SP", "SP", "SP", "SP", "SP", "SP", "SP", "SP", "SP", "SP", "SP", "3",
          ".", "SP", "6", "3", "1", "7", "N", "SP", "U8F74", "U627F", "SP", "U6570",
          "U91CF", ":", "SP", "4">>,
       <<"SP", "SP", "SP", "SP", "SP", "SP", "SP", "SP", "SP", "SP", "SP", "SP", "4",
          ".", "SP", "F", "B", "-", "S", "C", "1", "1", "5", "U2022", "1", "4", "0",
          "U2022", "1", "4", "D", "SP", "U6CB9", "U5C01", "SP", "U6570", "U91CF", ":",
          "SP", "1">>,
       <<"SP", "SP", "SP", "SP", "SP", "SP", "SP", "SP", "SP", "SP", "SP", "SP", "5",
          ".", "SP", "N", "J", "3", "1", "3", "SP", "U8F74", "U627F", "SP", "U6570",
          "U91CF", ":", "SP", "5">>,
       <<"SP", "SP", "SP", "SP", "SP", "SP", "SP", "SP", "SP", "SP", "SP", "SP", "6",
          ".", "SP", "1", "3", "5", "A", "-", "0", "3", "A", "-", "0", "1", "6", "A",
          "SP", "U8F74", "U5957", "SP", "U6570", "U91CF", ":", "SP", "3">>,
       <<"SP", "SP", "SP", "SP", "SP", "SP", "SP", "SP">> >>

\* Lines of a document: a date, an order number, list items, two lines with
\* the same bearing code, a phone number, a title, digits only, a line with
\* two codes, a run of capitals and digits, a starred item, counting words,
\* a quantity of 0, a name of two words.
DateLine ==
    <<"U65E5", "U671F", ":", "SP", "2", "0", "2", "5", "-", "0", "3", "-", "1", "5">>
OrderLine ==
    <<"U8BA2", "U5355", "U53F7", ":", "SP", "O", "D", "-", "1", "2", "3", "4", "5",
      "6">>
BearingLine ==
    <<"5", ".", "SP", "N", "J", "3", "1", "3", "SP", "U8F74", "U627F", "SP", "U6570",
      "U91CF", ":", "SP", "5">>
BearingAgainLine ==
    <<"N", "J", "3", "1", "3", "SP", "U6CB9", "U5C01", "SP", "U6570", "U91CF", ":",
      "SP", "2">>
ShaftLine ==
    <<"1", ".", "SP", "1", "3", "5", "-", "0", "1", "-", "0", "0", "3", "A", "SP",
      "U8F93", "U5165", "U8F74", "U603B", "U6210", "SP", "U6570", "U91CF", ":", "SP",
      "2">>
TwoCodesLine ==
    <<"1", "3", "5", "-", "0", "1", "-", "0", "0", "3", "A", "SP", "N", "J", "3", "1",
      "3">>
PhoneLine ==
    <<"1", "3", "9", "1", "2", "3", "4", "5", "6", "7", "8">>
TitleLine ==
    <<"U5BA2", "U6237", "U8BA2", "U5355", "U5355">>
DigitsLine ==
    <<"1", "2", "3", "4", "5">>
OtherBearingLine ==
    <<"6", "3", "1", "7", "N", "SP", "U8F74", "U627F", "SP", "U6570", "U91CF", ":",
      "SP", "4">>
RunLine ==
    <<"A", "B", "C", "D", "E", "1">>
SeenThenSealLine ==
    <<"N", "J", "3", "1", "3", "SP", "A", "B", "-", "C", "D", "1", ".", "2", ".", "3",
      "SP", "U6CB9", "U5C01", "SP", "3", "U4EF6">>
DatedLine ==
    <<"2", "0", "2", "5", "-", "0", "3", "-", "1", "5", "SP", "N", "J", "3", "1", "3",
      "SP", "U6570", "U91CF", "x", "7">>
CallLine ==
    <<"T", "E", "L", "SP", "1", "3", "9", "1", "2", "3", "4", "5", "6", "7", "8", "SP",
      "A", "B", "1", "2">>
StarLine ==
    <<"SP", "SP", "*", "SP", "M", "1", "0", "X", "2", "5", "G", "B", "3", "2", ".",
      "1", "-", "8", "8", "SP", "U87BA", "U6813", "SP", "U6570", "U91CF", "U00D7", "3",
      "SP">>
PiecesLine ==
    <<"A", "B", "1", "2", "3", "4", "5", "SP", "U57AB", "U7247", "SP", "2", "SP", "p",
      "c", "s">>
ZeroLine ==
    <<"F", "B", "-", "S", "C", "1", ".", "2", ".", "3", "SP", "U6570", "U91CF", ":",
      "0">>
ComplexLine ==
    <<"1", "2", "A", ".", "3", "B", ".", "4", "SP", "x", "SP", "U6570", "U91CF", "SP",
      "9">>
CountFirstLine ==
    <<"7", "SP", "U4E2A", "SP", "X", "Y", "Z", "9", "9">>
SpacedNameLine ==
    <<"1", "3", "5", "-", "0", "1", "-", "0", "0", "2", "SP", "SP", "U8C03", "U6574",
      "SP", "U63D2", "U5934", "SP", "SP", "3">>
\* "note: 1-2-3", "re-use it" and "ab 1.2.3": lines without a leading marker
\* and without three upper-case letters or digits in a row.
NoteLine ==
    <<"n", "o", "t", "e", ":", "SP", "1", "-", "2", "-", "3">>
HyphenLine ==
    <<"r", "e", "-", "u", "s", "e", "SP", "i", "t">>
DottedLine ==
    <<"a", "b", "SP", "1", ".", "2", ".", "3">>

LinePool ==
    << DateLine, OrderLine, BearingLine, BearingAgainLine,
       ShaftLine, TwoCodesLine, PhoneLine, TitleLine,
       DigitsLine, OtherBearingLine, RunLine, SeenThenSealLine,
       DatedLine, CallLine, StarLine, PiecesLine,
       ZeroLine, ComplexLine, CountFirstLine, SpacedNameLine,
       NoteLine, HyphenLine, DottedLine >>

MaxLines == 2        \* most lines of an enumerated text

RECURSIVE TextsOf(_)
TextsOf(n) ==
    IF n = 0 THEN {<<>>}
    ELSE LET shorter == TextsOf(n - 1)
         IN  shorter \cup {Append(t, LinePool[i]) :
                              t \in {u \in shorter : Len(u) = n - 1}, i \in 1..Len(LinePool)}

Texts == TextsOf(MaxLines) \cup {MockText}

\* The cells of an enumerated sheet are A1, B1, A2 and B5, each absent or
\* holding a bearing code, another one, a two-letter text or one of the
\* numbers 12, 0 and -3.
CodeNJ313 == <<"N", "J", "3", "1", "3">>
Code6317N == <<"6", "3", "1", "7", "N">>
CellPositions == {<<0, 0>>, <<0, 1>>, <<1, 0>>, <<4, 1>>}
CellValues ==
    {Str(CodeNJ313), Str(Code6317N), Num(12), Str(<<"A", "B">>), Num(0), Num(0 - 3)}
CellMaps ==
    UNION {[ps -> {[v |-> x] : x \in CellValues}] : ps \in SUBSET CellPositions}
FirstRowMaps ==
    UNION {[ps -> {[v |-> x] : x \in {Str(CodeNJ313), Str(Code6317N), Num(12)}}] :
              ps \in SUBSET {<<0, 0>>, <<0, 1>>}}

Workbooks ==
    {<<Sheet("Sheet1", m)>> : m \in CellMaps}
        \cup {<<Sheet("Sheet1", m), Sheet("Sheet2", n)>> : m, n \in FirstRowMaps}

ExtractInputs ==
    {[kind |-> "text", lines |-> t] : t \in Texts}
        \cup {[kind |-> "workbook", sheets |-> w] : w \in Workbooks}

-----------------------------------------------------------------------------
(* Import handlers that build the candidate list themselves *)

\* The record of a handler invocation.
Invoked(name, input) == [name |-> name, at |-> ops + 1, input |-> input]

\* What the prompt of batchAddParts can return: null when cancelled, or a
\* text, given as its lines (the result of split('\n')).
BatchLinePool == {<<"A", "-">>, <<"SP", "A", "-">>, <<"A", "A">>, <<>>}
BatchInputs ==
    {Null} \cup {Str(ls) : ls \in {<<a>> : a \in BatchLinePool}
                               \cup {<<a, b>> : a \in BatchLinePool, b \in BatchLinePool}}

\* input.split('\n').map(line => line.trim()).filter(line => line.length > 0)
partNumbersOf(lines) ==
    LET trimmed == [i \in 1..Len(lines) |-> trim(lines[i])]
    IN  SelectSeq(trimmed, LAMBDA line : Len(line) > 0)

batchAddParts ==
    /\ UserOp
    /\ view = "table"
    /\ run.status = "idle"
    /\ \E input \in BatchInputs :
          /\ lastOp' = Invoked("batchAddParts", input)
          /\ IF input = Null \/ partNumbersOf(String(input)) = <<>>
             THEN UNCHANGED <<partsData, uiVars, run, alerts>>
             ELSE LET partNumbers == partNumbersOf(String(input))
                      extractedParts ==
                          [i \in 1..Len(partNumbers) |->
                              Candidate(partNumbers[i], <<>>, 1, 0, <<"manual batch add">>)]
                  IN  processExtractedParts(extractedParts, "batchAddParts", FALSE)
    /\ UNCHANGED <<pureVars, earlier, stored, isAdmin>>

\* The outcome of readFileContent and XLSX.read for an uploaded file: the
\* file could not be read, the parser threw, or the rows of the first sheet.
ReadFailed == [outcome |-> "readFailed"]
ParseThrew == [outcome |-> "parseThrew"]
Rows(rows) == [outcome |-> "rows", rows |-> rows]

\* A handleProcessingError that reports nothing.
handleProcessingError_silent ==
    /\ loading' = FALSE
    /\ infoMessage' = <<"null">>
    /\ UNCHANGED alerts

\* handleProcessingError
handleProcessingError ==
    /\ loading' = FALSE
    /\ infoMessage' = <<"null">>
    /\ alerts' = alerts + 1

\* A row of a quotation template: identifier ("" when the row has none of the
\* identifier columns), name, quantity and price as parsed (0: the column is
\* missing), note.
TemplateRow(dn, name, quantity, price, note) ==
    [identifier |-> dn, name |-> name, quantity |-> quantity, price |-> price, note |-> note]

TemplateRowPool ==
    { TemplateRow(<<"A", "-">>, <<"shaft">>, 2, 5, <<"r1">>),
      TemplateRow(<<"A", "-">>, <<"shaft">>, 3, 0, <<"r2">>),
      TemplateRow(<<"A", "A">>, <<>>, 0, 7, <<>>),
      TemplateRow(<<>>, <<"customer">>, 0, 0, <<>>) }

TemplateFiles ==
    {ReadFailed, ParseThrew, Rows(<<>>)}
        \cup {Rows(<<a>>) : a \in TemplateRowPool}
        \cup {Rows(<<a, b>>) : a \in TemplateRowPool, b \in TemplateRowPool}

handleTemplateUpload ==
    /\ UserOp
    /\ view = "table"
    /\ run.status = "idle"
    /\ \E file \in TemplateFiles :
          /\ lastOp' = Invoked("handleTemplateUpload", file)
          /\ IF file = ReadFailed
             THEN alerts' = alerts + 1 /\ UNCHANGED <<partsData, uiVars, run>>
             ELSE IF file = ParseThrew
             THEN handleProcessingError
                  /\ UNCHANGED <<partsData, selectedParts, view, currentPage, run>>
             ELSE LET partsList == SelectSeq(file.rows, LAMBDA row : row.identifier # <<>>)
                      extractedParts ==
                          [i \in 1..Len(partsList) |->
                              Candidate(partsList[i].identifier, partsList[i].name,
                                        Or(partsList[i].quantity, 0, 1),
                                        Or(partsList[i].price, 0, 0),
                                        partsList[i].note)]
                  IN  IF Len(partsList) > 0
                      THEN processExtractedParts(extractedParts, "handleTemplateUpload", TRUE)
                      ELSE alerts' = alerts + 1 /\ UNCHANGED <<partsData, uiVars, run>>
    /\ UNCHANGED <<pureVars, earlier, stored, isAdmin>>

removeSelectedPart ==
    /\ UserOp
    /\ view = "quotation"
    /\ \E partId \in Ids(selectedParts) :
          selectedParts' =
              Filter(selectedParts, [part \in Elements(selectedParts) |-> part.id # partId])
    /\ UNCHANGED <<pureVars, earlier, stored, lastOp, partsData, view, currentPage, loading,
                   infoMessage, isAdmin, run, alerts>>

-----------------------------------------------------------------------------
(* extractPartsFromDocument *)

\* The '.'-separated pieces of a file name: fileName.split('.')
RECURSIVE lastPiece(_)
lastPiece(fileName) ==
    IF fileName = <<>> \/ fileName[Len(fileName)] = "." THEN <<>>
    ELSE Append(lastPiece(SubSeq(fileName, 1, Len(fileName) - 1)), fileName[Len(fileName)])

\* type.includes(ext)
includes(s, sub) == sub = <<>> \/ indexOf(s, sub) # 0

ALLOWED_FILE_TYPES ==
    [EXCEL |-> {<<".", "x", "l", "s", "x">>, <<".", "x", "l", "s">>, <<".", "c", "s", "v">>},
     PDF |-> {<<".", "p", "d", "f">>},
     WORD |-> {<<".", "d", "o", "c">>, <<".", "d", "o", "c", "x">>, <<".", "r", "t", "f">>}]

detectFileType(fileName) ==
    IF fileName = <<>> THEN "unknown"
    ELSE LET ext == lastPiece(toLowerCase(fileName))
         IN  IF \E type \in ALLOWED_FILE_TYPES.EXCEL : includes(type, ext) THEN "excel"
             ELSE IF \E type \in ALLOWED_FILE_TYPES.PDF : includes(type, ext) THEN "pdf"
             ELSE IF \E type \in ALLOWED_FILE_TYPES.WORD : includes(type, ext) THEN "word"
             ELSE "unknown"

\* The list the outer catch of extractPartsFromDocument returns.
FallbackParts ==
    << Candidate(<<"1", "3", "5", "-", "0", "1", "-", "0", "0", "3", "A">>,
                 <<"U8F93", "U5165", "U8F74", "U603B", "U6210">>, 2, 0, <<"from mock data">>),
       Candidate(<<"M", "1", "0", "X", "2", "5", "G", "B", "3", "2", ".", "1", "-", "8", "8">>,
                 <<"U666E", "U901A", "U87BA", "U6813">>, 10, 0, <<"from mock data">>),
       Candidate(<<"6", "3", "1", "7", "N">>,
                 <<"U8F74", "U627F">>, 4, 0, <<"from mock data">>),
       Candidate(<<"F", "B", "-", "S", "C", "1", "1", "5", "U2022", "1", "4", "0", "U2022", "1", "4", "D">>,
                 <<"U6CB9", "U5C01">>, 1, 0, <<"from mock data">>),
       Candidate(<<"N", "J", "3", "1", "3">>,
                 <<"U8F74", "U627F">>, 5, 0, <<"from mock data">>),
       Candidate(<<"1", "3", "5", "A", "-", "0", "3", "A", "-", "0", "1", "6", "A">>,
                 <<"U8F74", "U5957">>, 3, 0, <<"from mock data">>) >>

\* getMockPartsData()
getMockPartsData ==
    << Candidate(<<"1", "3", "5", "-", "0", "1", "-", "0", "0", "3", "A">>,
                 <<"U8F93", "U5165", "U8F74", "U603B", "U6210">>, 2, 0, <<"mock data">>),
       Candidate(<<"B", "1", "2", "X", "4", "0", "G", "B", "1", "2", "0", "-", "8", "6">>,
                 <<"U7D27", "U56FA", "U87BA", "U6813">>, 8, 0, <<"mock data">>),
       Candidate(<<"M", "1", "0", "X", "2", "5", "G", "B", "3", "2", ".", "1", "-", "8", "8">>,
                 <<"U87BA", "U6813">>, 12, 0, <<"mock data">>),
       Candidate(<<"1", "3", "5", "-", "0", "1", "-", "0", "0", "2">>,
                 <<"U8C03", "U6574", "U63D2", "U5934">>, 1, 0, <<"mock data">>),
       Candidate(<<"6", "3", "1", "7", "N">>,
                 <<"U8F74", "U627F">>, 4, 0, <<"mock data">>),
       Candidate(<<"1", "3", "5", "-", "0", "1", "-", "0", "0", "4">>,
                 <<"U8F93", "U5165", "U8F74", "U5957">>, 1, 0, <<"mock data">>),
       Candidate(<<"N", "J", "3", "1", "3">>,
                 <<"U8F74", "U627F">>, 2, 0, <<"mock data">>),
       Candidate(<<"1", "3", "5", "-", "0", "1", "-", "0", "0", "7">>,
                 <<"U8F93", "U5165", "U7AEF", "U6B62", "U63A8", "U73AF">>, 1, 0, <<"mock data">>),
       Candidate(<<"1", "3", "5", "-", "0", "1", "-", "0", "2", "4", "B">>,
                 <<"U79BB", "U5408", "U5668", "U58F3", "U4F53">>, 1, 0, <<"mock data">>),
       Candidate(<<"1", "3", "5", "-", "0", "1", "-", "0", "3", "2">>,
                 <<"U5185", "U516D", "U89D2", "U87BA", "U9489">>, 6, 0, <<"mock data">>),
       Candidate(<<"1", "3", "5", "A", "-", "0", "3", "A", "-", "0", "1", "6", "A">>,
                 <<"U8F74", "U5957">>, 2, 0, <<"mock data">>),
       Candidate(<<"F", "B", "-", "S", "C", "1", "1", "5", "U2022", "1", "4", "0", "U2022", "1", "4", "D">>,
                 <<"U6CB9", "U5C01">>, 1, 0, <<"mock data">>) >>

\* What the collaborators make of the content of an uploaded file: the text
\* extractor (pdf.js, mammoth) throws or returns the text, as its lines (the
\* mock text when the library is not loaded); XLSX.read throws or returns a
\* workbook; a file of no supported kind is never parsed.
TextThrew == [outcome |-> "textThrew"]
Text(lines) == [outcome |-> "text", lines |-> lines]
Book(sheets) == [outcome |-> "workbook", sheets |-> sheets]
NotParsed == [outcome |-> "notParsed"]
File(name, content) == [outcome |-> "file", name |-> name, content |-> content]

\* extractPartsFromDocument(file, fileContent)
extractPartsFromDocument(file) ==
    LET fileType == detectFileType(file.name)
    IN  CASE fileType = "excel" ->
                IF file.content = ParseThrew THEN FallbackParts
                ELSE extractGenericPartsList(file.content.sheets)
          [] fileType \in {"pdf", "word"} ->
                IF file.content = TextThrew THEN getMockPartsData
                ELSE extractPartsFromPdfText(file.content.lines)
          [] OTHER -> FallbackParts

-----------------------------------------------------------------------------
(* Upload handlers that extract from a file *)

PdfName == <<"o", ".", "P", "d", "f">>
DocxName == <<"o", ".", "d", "o", "c", "x">>
XlsxName == <<"o", ".", "x", "l", "s", "x">>
TxtName == <<"o", ".", "t", "x", "t">>

\* Two workbooks: the same code in A1 and B5 with a quantity in B1, and a
\* sheet with one two-letter cell, which yields no candidate.
BookWithCodes ==
    << Sheet("Sheet1", (<<0, 0>> :> [v |-> Str(CodeNJ313)]) @@ (<<0, 1>> :> [v |-> Num(12)])
                          @@ (<<4, 1>> :> [v |-> Str(CodeNJ313)])) >>
BookWithoutCodes == << Sheet("Sheet1", (<<0, 0>> :> [v |-> Str(<<"A", "B">>)])) >>

DocumentFiles ==
    {ReadFailed}
        \cup {File(PdfName, c) : c \in {TextThrew, Text(MockText), Text(<<DateLine>>),
                                        Text(<<BearingLine, BearingAgainLine>>)}}
        \cup {File(DocxName, c) : c \in {TextThrew, Text(MockText)}}
        \cup {File(XlsxName, c) : c \in {ParseThrew, Book(BookWithCodes), Book(BookWithoutCodes)}}
        \cup {File(TxtName, NotParsed)}

AdvancedFiles ==
    {ReadFailed}
        \cup {File(PdfName, c) : c \in {TextThrew, Text(MockText)}}
        \cup {File(XlsxName, c) : c \in {ParseThrew, Book(BookWithCodes), Book(BookWithoutCodes)}}

handleDocumentUpload ==
    /\ UserOp
    /\ view = "table"
    /\ run.status = "idle"
    /\ \E file \in DocumentFiles :
          /\ lastOp' = Invoked("handleDocumentUpload", file)
          /\ IF file = ReadFailed
             THEN alerts' = alerts + 1 /\ UNCHANGED <<partsData, uiVars, run>>
             ELSE \E extractedParts \in {extractPartsFromDocument(file)} :
                      IF Len(extractedParts) > 0
                      THEN processExtractedParts(extractedParts, "handleDocumentUpload", TRUE)
                      ELSE /\ loading' = FALSE
                           /\ infoMessage' = <<"parsing document">>
                           /\ alerts' = alerts + 1
                           /\ UNCHANGED <<partsData, selectedParts, view, currentPage, run>>
    /\ UNCHANGED <<pureVars, earlier, stored, isAdmin>>

\* file.name.toLowerCase().endsWith('.pdf')
isPdf(fileName) ==
    LET lower == toLowerCase(fileName)
    IN  Len(lower) >= 4 /\ SubSeq(lower, Len(lower) - 3, Len(lower)) = <<".", "p", "d", "f">>

\* The PDF branch calls extractPartsFromDocument() without arguments and
\* without await: the argument of processExtractedParts is a promise, which
\* has no length and no slice, so processBatch(0) raises before it reads a
\* candidate and the handler's catch reports the error. The spreadsheet
\* branches all end in extractGenericPartsList.
handleAdvancedQuotationUpload ==
    /\ UserOp
    /\ view = "table"
    /\ run.status = "idle"
    /\ \E file \in AdvancedFiles :
          /\ lastOp' = Invoked("handleAdvancedQuotationUpload", file)
          /\ IF ~isAdmin \/ file = ReadFailed
             THEN alerts' = alerts + 1 /\ UNCHANGED <<partsData, uiVars, run>>
             ELSE IF isPdf(file.name)
             THEN /\ handleProcessingError
                  /\ run' = [NewRun(<<>>, partsData, "handleAdvancedQuotationUpload")
                                EXCEPT !.status = "aborted"]
                  /\ UNCHANGED <<partsData, selectedParts, view, currentPage>>
             ELSE IF file.content = ParseThrew
             THEN /\ loading' = FALSE
                  /\ infoMessage' = <<"processing file">>
                  /\ alerts' = alerts + 1
                  /\ UNCHANGED <<partsData, selectedParts, view, currentPage, run>>
             ELSE \E allExtractedParts \in {extractGenericPartsList(file.content.sheets)} :
                      processExtractedParts(allExtractedParts,
                                            "handleAdvancedQuotationUpload", TRUE)
    /\ UNCHANGED <<pureVars, earlier, stored, isAdmin>>

\* A row object of sheet_to_json: the cells of the row by column title, and
\* the title of its first column (Object.keys(item)[0]).
Row(first, cells) == [first |-> first, cells |-> cells]

\* row[key], undefined when the row has no such column.
Cell(row, key) == IF key \in DOMAIN row.cells THEN row.cells[key] ELSE Undefined

\* !x : undefined, null, the empty string and the number 0 are falsy.
falsy(x) == x.t \in {"undefined", "null"} \/ x = Str(<<>>) \/ x = Num(0)

\* parseInt(x) || 0 and parseFloat(x) || 0 for a number without fraction, a
\* string that starts with digits, or anything else (NaN).
numberOr0(x) ==
    IF x.t \in {"number", "string"}
    THEN LET text == trimStart(String(x))
         IN  parseInt(SubSeq(text, 1, RunLength(text, 1, DigitClass, -1)))
    ELSE 0

\* What the worksheet of a customer list gives: no range at all, the rows of
\* sheet_to_json (which may be none), or an exception of sheet_to_json; with
\* the sheet itself for the fallbacks that read its cells.
NoRef == [outcome |-> "noRef"]
Json(rows, sheet) == [outcome |-> "json", rows |-> rows, sheet |-> sheet]
JsonThrew(sheet) == [outcome |-> "jsonThrew", sheet |-> sheet]

\* cell.w || String(cell.v), trimmed, of the cells of column c that pass the
\* test of the loop; strict: the test is cell.v truthy, otherwise cell.v
\* defined.
RECURSIVE columnValues(_, _, _, _)
columnValues(sheet, c, r, strict) ==
    IF r > sheet.ref.e.r THEN <<>>
    ELSE (IF /\ <<r, c>> \in DOMAIN sheet.cells
             /\ (strict => ~falsy(sheet.cells[<<r, c>>].v))
             /\ trim(String(sheet.cells[<<r, c>>].v)) # <<>>
          THEN << trim(String(sheet.cells[<<r, c>>].v)) >>
          ELSE <<>>)
         \o columnValues(sheet, c, r + 1, strict)

rawRows(values) ==
    [i \in 1..Len(values) |->
        Row("drawingNumber", [drawingNumber |-> Str(values[i]), rawValue |-> Str(values[i])])]

\* customerData as the handler has it before the loop over its items.
customerDataOf(file) ==
    IF file.outcome = "jsonThrew"
    THEN rawRows(columnValues(file.sheet, 0, file.sheet.ref.s.r, FALSE))
    ELSE IF file.rows # <<>> THEN file.rows
    ELSE LET range == file.sheet.ref
             single == IF range.e.c = 0 \/ range.e.c = range.s.c
                       THEN columnValues(file.sheet, range.s.c, range.s.r, TRUE)
                       ELSE <<>>
         IN  IF single # <<>> THEN rawRows(single)
             ELSE rawRows(columnValues(file.sheet, range.s.c, range.s.r, TRUE))

\* String(item['图号'] || item['标识码'] || item['rawValue']
\*        || item[Object.keys(item)[0]] || '').trim()
importedIdOf(item) ==
    LET tried == << Cell(item, "drawingNumber"), Cell(item, "id"), Cell(item, "rawValue"),
                    Cell(item, item.first) >>
        truthy == {k \in 1..4 : ~falsy(tried[k])}
    IN  IF truthy = {} THEN <<>>
        ELSE trim(String(tried[CHOOSE k \in truthy : \A m \in truthy : k <= m]))

customerMatchedEntry(matchResult, item, importedId) ==
    Spread(matchResult,
           [importedId |-> Str(importedId),
            quantity |-> Or(numberOr0(Cell(item, "quantity")), 0, 1),
            importedPrice |-> Or(numberOr0(Cell(item, "unitPrice")), 0, 0),
            importedRemark |-> IF falsy(Cell(item, "note")) THEN <<>>
                               ELSE String(Cell(item, "note"))])

customerNewEntry(item, importedId) ==
    [id |-> <<"NEW_">> \o importedId,
     drawingNumber |-> Str(importedId),
     name |-> IF falsy(Cell(item, "name")) THEN <<"unknown part">>
              ELSE String(Cell(item, "name")),
     guidePrice |-> 0, factoryPrice |-> 0, servicePrice |-> 0,
     guidePriceTaxed |-> 0, factoryPriceTaxed |-> 0,
     servicePriceTaxed |-> Or(numberOr0(Cell(item, "unitPrice")), 0, 0),
     note |-> IF falsy(Cell(item, "note")) THEN <<"customer id: ">> \o importedId
              ELSE String(Cell(item, "note")),
     quantity |-> Or(numberOr0(Cell(item, "quantity")), 0, 1),
     isNew |-> TRUE,
     importedId |-> Str(importedId)]

\* The loop over customerData from item i on: matchedParts, given the
\* entries so far and the identifiers processed so far.
RECURSIVE customerLoop(_, _, _, _, _)
customerLoop(customerData, parts, i, matchedParts, processedIds) ==
    IF i > Len(customerData) THEN matchedParts
    ELSE LET item == customerData[i]
             importedId == importedIdOf(item)
             matchResult == enhancedFuzzyMatch(Str(importedId), parts)
         IN  IF importedId = <<>> \/ importedId \in processedIds
             THEN customerLoop(customerData, parts, i + 1, matchedParts, processedIds)
             ELSE customerLoop(customerData, parts, i + 1,
                               Append(matchedParts,
                                      IF matchResult # NullResult
                                      THEN customerMatchedEntry(matchResult, item, importedId)
                                      ELSE customerNewEntry(item, importedId)),
                               processedIds \cup {importedId})

\* The rows of an enumerated customer list: a drawing number of the catalog
\* with quantity and price, the same with white space around it, an id
\* column behind a name, a name only, a blank cell only, a zero only.
CustomerRowPool ==
    { Row("drawingNumber", [drawingNumber |-> Str(<<"A", "-">>), quantity |-> Num(2),
                            unitPrice |-> Num(5)]),
      Row("drawingNumber", [drawingNumber |-> Str(<<"SP", "A", "-", "SP">>),
                            note |-> Str(<<"r2">>)]),
      Row("name", [name |-> Str(<<"shaft">>), id |-> Str(<<"Z", "Z">>)]),
      Row("name", [name |-> Str(<<"bolt">>)]),
      Row("other", [other |-> Str(<<"SP">>), name |-> Str(<<>>)]),
      Row("quantity", [quantity |-> Num(0)]) }

ColumnOfCodes ==
    Sheet("Sheet1", (<<0, 0>> :> [v |-> Str(CodeNJ313)]) @@ (<<1, 0>> :> [v |-> Str(CodeNJ313)])
                        @@ (<<2, 0>> :> [v |-> Num(0)]))
ColumnOfBlanks ==
    Sheet("Sheet1", (<<0, 0>> :> [v |-> Str(<<"SP">>)]) @@ (<<1, 0>> :> [v |-> Num(0)]))
HeaderRowOnly ==
    Sheet("Sheet1", (<<0, 0>> :> [v |-> Str(<<"A", "-">>)]) @@ (<<0, 1>> :> [v |-> Num(3)]))

CustomerFiles ==
    {ReadFailed, ParseThrew, NoRef}
        \cup {Json(<<a>>, HeaderRowOnly) : a \in CustomerRowPool}
        \cup {Json(<<a, b>>, HeaderRowOnly) : a \in CustomerRowPool, b \in CustomerRowPool}
        \cup {Json(<<>>, s) : s \in {ColumnOfCodes, ColumnOfBlanks, HeaderRowOnly}}
        \cup {JsonThrew(s) : s \in {ColumnOfCodes, ColumnOfBlanks}}

handleCustomerQuotationUpload ==
    /\ UserOp
    /\ view = "table"
    /\ \E file \in CustomerFiles :
          /\ lastOp' = Invoked("handleCustomerQuotationUpload", file)
          /\ IF file = ReadFailed
             THEN alerts' = alerts + 1 /\ UNCHANGED uiVars
             ELSE LET failed == file \in {ParseThrew, NoRef}
                      customerData == IF failed THEN <<>> ELSE customerDataOf(file)
                      matchedParts == customerLoop(customerData, partsData, 1, <<>>, {})
                  IN  IF failed \/ Len(customerData) = 0 \/ Len(matchedParts) = 0
                      THEN /\ handleProcessingError
                           /\ UNCHANGED <<selectedParts, view, currentPage>>
                      ELSE /\ selectedParts' = matchedParts
                           /\ view' = "quotation"
                           /\ currentPage' = 1
                           /\ infoMessage' =
                                 <<"imported", Len(matchedParts),
                                   Len(SelectSeq(matchedParts, LAMBDA p : "isNew" \notin DOMAIN p)),
                                   Len(SelectSeq(matchedParts, LAMBDA p : "isNew" \in DOMAIN p))>>
                           /\ loading' = FALSE
                           /\ UNCHANGED alerts
          /\ UNCHANGED <<partsData, run>>
    /\ UNCHANGED <<pureVars, earlier, stored, isAdmin>>

\* The catalog part handleFileUploadWrapper makes of row number index
\* (counted from 0) of the sheet. The rows have no date column.
importText(x, default) == IF falsy(x) THEN default ELSE String(x)

unitAndMerged(row) ==
    LET unit == IF falsy(Cell(row, "unit")) THEN <<>>
                ELSE <<"unit:">> \o String(Cell(row, "unit"))
        merged == importText(Cell(row, "merged"), <<>>)
    IN  IF unit # <<>> /\ merged # <<>> THEN unit \o <<"; ">> \o merged ELSE unit \o merged

generatedId(index) == <<"IMPORT">> \o decimal(index + 1)

formatRow(row, index) ==
    LET singlePrice == numberOr0(Cell(row, "factoryPriceRaw"))
        price(key) == numberOr0(Cell(row, key))
    IN  IF ~falsy(Cell(row, "code")) /\ Cell(row, "factoryPriceRaw") # Undefined
        THEN [date |-> "",
              id |-> importText(Cell(row, "code"), generatedId(index)),
              drawingNumber |-> Str(importText(Cell(row, "partNo"), <<>>)),
              name |-> importText(Cell(row, "partName"), <<"unknown part">>),
              guidePrice |-> singlePrice, factoryPrice |-> singlePrice,
              servicePrice |-> singlePrice, guidePriceTaxed |-> singlePrice,
              factoryPriceTaxed |-> singlePrice, servicePriceTaxed |-> singlePrice,
              note |-> unitAndMerged(row)]
        ELSE IF ~falsy(Cell(row, "id"))
        THEN [date |-> "",
              id |-> importText(Cell(row, "id"), generatedId(index)),
              drawingNumber |-> Str(importText(Cell(row, "drawingNumber"), <<>>)),
              name |-> importText(Cell(row, "name"), <<"unknown part">>),
              guidePrice |-> price("guidePrice"), factoryPrice |-> price("factoryPrice"),
              servicePrice |-> price("servicePrice"),
              guidePriceTaxed |-> price("guidePriceTaxed"),
              factoryPriceTaxed |-> price("factoryPriceTaxed"),
              servicePriceTaxed |-> price("servicePriceTaxed"),
              note |-> importText(Cell(row, "note"), <<>>)]
        ELSE LET single == ~falsy(Cell(row, "factoryPriceRaw"))
             IN  [date |-> "",
                  id |-> importText(Cell(row, "id"),
                                    importText(Cell(row, "code"), generatedId(index))),
                  drawingNumber |-> Str(importText(Cell(row, "drawingNumber"),
                                                   importText(Cell(row, "partNo"), <<>>))),
                  name |-> importText(Cell(row, "name"),
                                      importText(Cell(row, "partName"), <<"unknown part">>)),
                  guidePrice |-> IF single THEN singlePrice ELSE price("guidePrice"),
                  factoryPrice |-> IF single THEN singlePrice ELSE price("factoryPrice"),
                  servicePrice |-> price("servicePrice"),
                  guidePriceTaxed |-> price("guidePriceTaxed"),
                  factoryPriceTaxed |-> IF single THEN singlePrice
                                        ELSE price("factoryPriceTaxed"),
                  servicePriceTaxed |-> price("servicePriceTaxed"),
                  note |-> importText(Cell(row, "note"), unitAndMerged(row))]

\* jsonData.map(...).filter(item => name is given or the factory price is positive)
formattedData(jsonData) ==
    SelectSeq([i \in 1..Len(jsonData) |-> formatRow(jsonData[i], i - 1)],
              LAMBDA item : item.name # <<"unknown part">> \/ item.factoryPrice > 0)

\* [...partsData, ...newData], newData the formatted rows whose id is not in
\* the catalog.
combinedData(parts, jsonData) ==
    parts \o SelectSeq(formattedData(jsonData), LAMBDA item : item.id \notin Ids(parts))

\* The rows of an enumerated catalog file: an id of the sample catalog, a new
\* id, the same new id in the other column layout, a row without id, a row
\* with neither name nor price.
ImportRowPool ==
    { Row("id", [id |-> Str(<<"ZB0001">>), drawingNumber |-> Str(<<"A", "-">>),
                 name |-> Str(<<"n1">>), guidePrice |-> Num(10)]),
      Row("id", [id |-> Str(<<"ZB0009">>), drawingNumber |-> Str(<<"A", "A">>),
                 name |-> Str(<<"n9">>), factoryPrice |-> Num(3)]),
      Row("code", [code |-> Str(<<"ZB0009">>), factoryPriceRaw |-> Num(5),
                   partNo |-> Str(<<"a", "a">>), partName |-> Str(<<"n9b">>),
                   unit |-> Str(<<"pc">>)]),
      Row("name", [name |-> Str(<<"x">>), factoryPriceRaw |-> Num(4)]),
      Row("drawingNumber", [drawingNumber |-> Str(<<"A", "-">>)]) }

MaxRows == 2         \* most rows of an enumerated file

RECURSIVE RowLists(_, _)
RowLists(pool, n) ==
    IF n = 0 THEN {<<>>}
    ELSE LET shorter == RowLists(pool, n - 1)
         IN  shorter \cup {Append(l, a) : l \in {k \in shorter : Len(k) = n - 1}, a \in pool}

ImportFiles == {ReadFailed, ParseThrew} \cup {Rows(l) : l \in RowLists(ImportRowPool, MaxRows)}

handleFileUploadWrapper ==
    /\ UserOp
    /\ view = "table"
    /\ \E file \in ImportFiles :
          /\ lastOp' = Invoked("handleFileUploadWrapper", file)
          /\ IF file = ReadFailed
             THEN /\ alerts' = alerts + 1
                  /\ UNCHANGED <<partsData, stored, currentPage, loading, infoMessage>>
             ELSE IF file = ParseThrew
             THEN handleProcessingError /\ UNCHANGED <<partsData, stored, currentPage>>
             ELSE /\ partsData' = combinedData(partsData, file.rows)
                  /\ currentPage' = 1
                  /\ saveDataToStorage(combinedData(partsData, file.rows))
                  /\ alerts' = alerts + 1
                  /\ loading' = FALSE
                  /\ UNCHANGED infoMessage
    /\ UNCHANGED <<pureVars, earlier, selectedParts, view, isAdmin, run>>

\* What loadData sets the catalog to in the browser: the parsed item, or the
\* sample data when there is no item.
loadedCatalog(item) == IF item.present THEN JSON_parse(item) ELSE sampleData

\* The page is loaded again: every React state starts from its default,
\* pending timers are gone, and the mount effect loadData runs; without a
\* stored item it calls loadSampleData, which also saves the sample data.
loadData ==
    /\ UserOp
    /\ lastOp' = [name |-> "loadData", at |-> ops + 1]
    /\ partsData' = loadedCatalog(stored)
    /\ IF stored.present THEN UNCHANGED stored ELSE saveDataToStorage(sampleData)
    /\ selectedParts' = <<>>
    /\ view' = "table"
    /\ currentPage' = 1
    /\ loading' = FALSE
    /\ infoMessage' = <<"null">>
    /\ isAdmin' = FALSE
    /\ run' = IdleRun
    /\ earlier' = IdleRun
    /\ UNCHANGED <<pureVars, alerts>>

-----------------------------------------------------------------------------
(* Defaults of the state a specification does not exercise *)

KeysIdle == keyInput = Null /\ keyOutput = NotRun
MatchIdle == matchInput = Null /\ lastMatch = NotRun /\ lastMatchApp = NotRun
ExtractIdle == extractInput = NotRun /\ extractOutput = NotRun
UiInit ==
    /\ selectedParts = <<>>
    /\ view = "table"
    /\ currentPage = 1
    /\ loading = FALSE
    /\ infoMessage = <<"null">>
\* The record of the handler that ran last: here the mount effect, loadData.
Loaded == [name |-> "loadData", at |-> 0]
RunIdle ==
    /\ run = IdleRun /\ earlier = IdleRun
    /\ isAdmin = FALSE /\ alerts = 0 /\ ops = 0 /\ lastOp = Loaded

\* The stored item holds the catalog the session was loaded with.
StoreIdle == stored = JSON_stringify(partsData)

-----------------------------------------------------------------------------
(* SpecKeys: the key functions applied to one input *)

InitKeys ==
    /\ keyInput \in KeyInputs
    /\ keyOutput = NotRun
    /\ MatchIdle /\ ExtractIdle /\ partsData = <<>> /\ UiInit /\ RunIdle /\ StoreIdle

ComputeKeys ==
    /\ keyOutput = NotRun
    /\ keyOutput' = [exact |-> exactKey(keyInput),
                     caseInsensitive |-> caseInsensitiveKey(keyInput),
                     noSpace |-> noSpaceKey(keyInput),
                     fuzzy |-> fuzzyKey(keyInput)]
    /\ UNCHANGED <<keyInput, matchVars, extractVars, partsData, uiVars, runVars, lastOp, earlier,
                   stored>>

NextKeys == ComputeKeys

SpecKeys == InitKeys /\ [][NextKeys]_vars

-----------------------------------------------------------------------------
(* SpecMatch: one candidate matched against one catalog by both matchers *)

InitMatch ==
    /\ matchInput \in MatchCandidates
    /\ partsData \in MatchCatalogs
    /\ lastMatch = NotRun
    /\ lastMatchApp = NotRun
    /\ KeysIdle /\ ExtractIdle /\ UiInit /\ RunIdle /\ StoreIdle

MatchOne ==
    /\ lastMatch = NotRun
    /\ lastMatch' = enhancedFuzzyMatch(matchInput, partsData)
    /\ partsData' = partsAfterMatch(matchInput, partsData)
    /\ UNCHANGED <<matchInput, lastMatchApp, keyVars, extractVars, uiVars, runVars, lastOp, earlier,
                   stored>>

\* The same input handed to the matcher of App.js afterwards.
MatchOneApp ==
    /\ lastMatch # NotRun
    /\ lastMatchApp = NotRun
    /\ lastMatchApp' = enhancedFuzzyMatch_App(matchInput, partsData)
    /\ UNCHANGED <<matchInput, lastMatch, partsData, keyVars, extractVars, uiVars, runVars,
                   lastOp, earlier, stored>>

NextMatch == MatchOne \/ MatchOneApp

SpecMatch == InitMatch /\ [][NextMatch]_vars

-----------------------------------------------------------------------------
(* SpecExtract: one text or workbook handed to its extractor *)

InitExtract ==
    /\ extractInput \in ExtractInputs
    /\ extractOutput = NotRun
    /\ KeysIdle /\ MatchIdle /\ partsData = <<>> /\ UiInit /\ RunIdle /\ StoreIdle

\* extractPartsFromPdfText; with the candidates, the line each was taken from.
ExtractText ==
    /\ extractOutput = NotRun
    /\ extractInput.kind = "text"
    /\ extractOutput' = scanText(extractInput.lines)
    /\ UNCHANGED <<extractInput, keyVars, matchVars, partsData, uiVars, runVars, lastOp, earlier,
                   stored>>

ExtractWorkbook ==
    /\ extractOutput = NotRun
    /\ extractInput.kind = "workbook"
    /\ extractOutput' = [partCandidates |-> extractGenericPartsList(extractInput.sheets)]
    /\ UNCHANGED <<extractInput, keyVars, matchVars, partsData, uiVars, runVars, lastOp, earlier,
                   stored>>

NextExtract == ExtractText \/ ExtractWorkbook

SpecExtract == InitExtract /\ [][NextExtract]_vars

-----------------------------------------------------------------------------
(* Spec: a session with one reconciliation call and the workspace handlers *)

Init ==
    /\ partsData \in SessionCatalogs
    /\ KeysIdle /\ MatchIdle /\ ExtractIdle /\ UiInit /\ RunIdle /\ StoreIdle

EditStep == updatePartQuantity \/ updatePartCustomPrice \/ reviewAndConfirm

Next ==
    \/ StartRun
    \/ ContinueRun
    \/ handleSelectPart
    \/ updatePartQuantity
    \/ updatePartCustomPrice
    \/ reviewAndConfirm
    \/ generateQuotation
    \/ backToList
    \/ handleAdminLogin
    \/ handleAdminLogout
    \/ clearDatabase
    \/ batchAddParts
    \/ handleTemplateUpload
    \/ removeSelectedPart

Spec == Init /\ [][Next]_vars

\* Runs, and an administrator who may clear the catalog meanwhile, when the
\* timer of every scheduled continuation (setTimeout(..., 10), line 564)
\* eventually fires.
NextLive == StartRun \/ ContinueRun \/ handleAdminLogin \/ clearDatabase

SpecLive == Init /\ [][NextLive]_vars /\ WF_vars(ContinueRun)

-----------------------------------------------------------------------------
(* SpecUpload: a session of the file upload handlers. Every candidate list  *)
(* here is shorter than batchSize, so the first slice of a reconciliation   *)
(* finishes it.                                                             *)

InitUpload ==
    /\ partsData \in SessionCatalogs
    /\ KeysIdle /\ MatchIdle /\ ExtractIdle /\ UiInit /\ RunIdle /\ StoreIdle

NextUpload ==
    \/ handleFileUploadWrapper
    \/ handleAdvancedQuotationUpload
    \/ handleCustomerQuotationUpload
    \/ handleDocumentUpload
    \/ handleSelectPart
    \/ handleAdminLogin
    \/ handleAdminLogout
    \/ clearDatabase
    \/ loadData

SpecUpload == InitUpload /\ [][NextUpload]_vars

-----------------------------------------------------------------------------
(* SpecOverlap: two runs in flight, and a catalog that changes meanwhile *)

\* The administrator has logged in, which was the first operation of the
\* session.
InitOverlap ==
    /\ partsData \in SessionCatalogs
    /\ KeysIdle /\ MatchIdle /\ ExtractIdle /\ UiInit /\ StoreIdle
    /\ run = IdleRun /\ earlier = IdleRun
    /\ isAdmin = TRUE /\ alerts = 1 /\ ops = 1 /\ lastOp = Loaded

NextOverlap ==
    \/ StartOverlappingRun
    \/ ContinueRun
    \/ ContinueEarlier
    \/ handleFileUploadWrapper
    \/ clearDatabase

SpecOverlap == InitOverlap /\ [][NextOverlap]_vars

-----------------------------------------------------------------------------
(* Vocabulary of the matcher's contract *)

TierOrder == <<"exact", "caseInsensitive", "noSpace", "fuzzy">>

TierKey(tier, x) ==
    CASE tier = "exact" -> exactKey(x)
      [] tier = "caseInsensitive" -> caseInsensitiveKey(x)
      [] tier = "noSpace" -> noSpaceKey(x)
      [] tier = "fuzzy" -> fuzzyKey(x)

\* The catalog positions whose drawingNumber key equals the candidate's key.
TierHits(tier, id, parts) ==
    {i \in 1..Len(parts) : TierKey(tier, parts[i].drawingNumber) = TierKey(tier, id)}

\* The first tier, in cascade order, that has a hit; 0 when none has.
FirstTier(id, parts) ==
    LET ts == {k \in 1..4 : TierHits(TierOrder[k], id, parts) # {}}
    IN  IF ts = {} THEN 0 ELSE CHOOSE k \in ts : \A m \in ts : k <= m

\* The catalog fields of a match result.
PartOf(res) == [k \in DOMAIN res \ {"matchType"} |-> res[k]]

IsNone(res) == res = NullResult \/ res = UndefinedResult

CascadeConforms(res, id, parts) ==
    LET k == FirstTier(id, parts)
    IN  IF k = 0 THEN IsNone(res)
        ELSE /\ ~IsNone(res)
             /\ Get(res, "matchType") = TierOrder[k]
             /\ \E i \in TierHits(TierOrder[k], id, parts) : PartOf(res) = parts[i]

HasPart(parts, p) == \E i \in 1..Len(parts) : parts[i] = p

TierPrecedenceExample(res, id, parts) ==
    (id = Str(Dn135A) /\ HasPart(parts, Part135A) /\ HasPart(parts, Part135a))
        => (~IsNone(res) /\ Get(res, "matchType") = "exact" /\ res.id = Part135A.id)

\* The four-tier matcher of ImprovedPartsQuotationSystem.js follows the cascade.
Improved_TierCascade ==
    lastMatch # NotRun =>
        /\ CascadeConforms(lastMatch, matchInput, partsData)
        /\ TierPrecedenceExample(lastMatch, matchInput, partsData)

-----------------------------------------------------------------------------
(* Claims about the matcher and the keys *)

\* C1: matchOne tries exact, caseInsensitive, noSpace, normalizedFuzzy in that
\* order and returns the first tier that has a hit together with a part hit at
\* that tier, and none only when no tier hits; with "135-01-003A" and
\* "135-01-003a" both in the catalog, candidate "135-01-003A" is classified
\* exact against the "135-01-003A" part. Stated of both enhancedFuzzyMatch
\* functions of the repository.
C1_TierCascade ==
    /\ Improved_TierCascade
    /\ lastMatchApp # NotRun =>
           /\ CascadeConforms(lastMatchApp, matchInput, partsData)
           /\ TierPrecedenceExample(lastMatchApp, matchInput, partsData)

\* C2: when several catalog parts have a key equal to the candidate's key at
\* the winning tier, the one that comes first in catalog order is returned.
C2_FirstInOrderWins ==
    (lastMatch # NotRun /\ lastMatch # NullResult) =>
        LET hits == TierHits(lastMatch.matchType, matchInput, partsData)
        IN  /\ hits # {}
            /\ \E i \in hits : /\ \A j \in hits : i <= j
                               /\ PartOf(lastMatch) = partsData[i]

C2_Witness ==
    /\ lastMatch # NotRun /\ lastMatch # NullResult
    /\ Cardinality(TierHits(lastMatch.matchType, matchInput, partsData)) >= 2

\* The separator family the specification names: hyphen, full-width hyphen,
\* middle dot, full stop, full-width full stop, Japanese middle dot, underscore.
ClaimedSeparators == {"-", "FWHYPHEN", "MIDDOT", ".", "FWDOT", "KDOT", "_"}

ClaimedFuzzyKey(x) ==
    LET s == String(x)
        canon == [i \in 1..Len(s) |-> IF s[i] \in ClaimedSeparators THEN "-" ELSE s[i]]
    IN  toLowerCase(removeWhitespace(canon))

NoHigherTierHit(id, parts) ==
    \A k \in 1..3 : TierHits(TierOrder[k], id, parts) = {}

\* C3: the normalized-fuzzy tier treats every character of the separator family
\* as one canonical separator, after lower-casing and removing white space: a
\* candidate equal to a catalog drawingNumber up to that is classified fuzzy
\* when no higher tier matches ("135．01－003A" against "135-01-003A").
C3_SeparatorFamily ==
    (/\ lastMatch # NotRun
     /\ NoHigherTierHit(matchInput, partsData)
     /\ \E i \in 1..Len(partsData) :
            ClaimedFuzzyKey(partsData[i].drawingNumber) = ClaimedFuzzyKey(matchInput))
        => (lastMatch # NullResult /\ lastMatch.matchType = "fuzzy")

NoExactOrCaseHit(id, parts) ==
    TierHits("exact", id, parts) = {} /\ TierHits("caseInsensitive", id, parts) = {}

\* Positions equal to the candidate once white space is removed.
SameButSpace(id, parts) ==
    {i \in 1..Len(parts) :
        removeWhitespace(String(parts[i].drawingNumber)) = removeWhitespace(String(id))}

\* Positions equal to the candidate once white space is removed and case folded.
SameButSpaceAndCase(id, parts) ==
    {i \in 1..Len(parts) :
        toLowerCase(removeWhitespace(String(parts[i].drawingNumber)))
            = toLowerCase(removeWhitespace(String(id)))}

JsChars == Chars \cup {"n", "u", "l", "d", "e", "f", "i"}

-----------------------------------------------------------------------------
(* Claims about the reconciliation run *)

\* C6: matching and reconciliation never change the catalog, and a matched
\* entry is a copy: no step of processExtractedParts (its first slice or a
\* continuation, with every enhancedFuzzyMatch call in it; these are the steps
\* that change the closure) and no edit of the selection (quantity, price
\* override, review flag) changes partsData.
C6_CatalogReadOnly ==
    [][(run' # run \/ EditStep) => partsData' = partsData]_vars

IsMatchedEntry(p) == Get(p, "matchType") \in {"exact", "caseInsensitive", "noSpace", "fuzzy"}

C6_Witness ==
    /\ run.status = "done"
    /\ run.matchedCount > 0
    /\ partsData # <<>>
    /\ \E i \in 1..Len(selectedParts) :
          /\ IsMatchedEntry(selectedParts[i])
          /\ i <= Len(run.matchedParts)
          /\ selectedParts[i].id = run.matchedParts[i].id
          /\ selectedParts[i].quantity # run.matchedParts[i].quantity

\* C7: processExtractedParts on an empty list ends with the empty-extraction
\* outcome and commits nothing: selection, view and page keep their values, no
\* slice runs, nothing is reported, finishProcessing is not called, and the
\* call does nothing afterwards.
C7_EmptyExtraction ==
    [][/\ (run.status = "idle" /\ run'.status # "idle" /\ run'.extractedParts = <<>>) =>
             /\ run'.status = "empty"
             /\ selectedParts' = selectedParts
             /\ view' = view
             /\ currentPage' = currentPage
             /\ run'.chunks = 0
             /\ run'.reports = <<>>
             /\ run'.finishCalls = 0
             /\ run'.matchedParts = <<>>
       /\ run.status = "empty" => run' = run]_vars

C7_Witness ==
    /\ run.status = "empty"
    /\ selectedParts # <<>>
    /\ view = "quotation"

CeilChunks(n) == (n + batchSize - 1) \div batchSize

ExpectedReports(n, k) == [i \in 1..k |-> <<Min(i * batchSize, n), n>>]

ProgressContract(r) ==
    LET n == Len(r.extractedParts)
    IN  (n >= 1 /\ r.status \in {"waiting", "done", "aborted"}) =>
            /\ r.reports = ExpectedReports(n, r.chunks)
            /\ r.status \in {"done", "aborted"} =>
                   /\ Len(r.reports) = CeilChunks(n)
                   /\ r.reports[Len(r.reports)] = <<n, n>>

WellFormed(extractedParts) ==
    \A i \in 1..Len(extractedParts) : extractedParts[i] # NullCandidate

\* Runs over lists without a null record report once per slice, ceil(n/20)
\* times in all, ending with (n, n).
Reports_WellFormedRuns == WellFormed(run.extractedParts) => ProgressContract(run)

\* C8: a call on n >= 1 candidates works in consecutive chunks of at most 20,
\* each slice ending with one progress report (processedCount, totalCount):
\* report i is (min(20 i, n), n), there are ceil(n/20) of them once the call
\* has ended, and the last one is (n, n).
C8_ProgressReports == ProgressContract(run)

\* C9: the entries of a completed run are in the order of the input
\* candidates, whatever the catalog order and the chunk boundaries.
C9_InputOrder ==
    run.status = "done" =>
        /\ Len(run.origin) = Len(run.matchedParts)
        /\ \A e1, e2 \in 1..Len(run.origin) : e1 < e2 => run.origin[e1] < run.origin[e2]
        /\ \A e \in 1..Len(run.origin) :
               /\ run.origin[e] \in 1..Len(run.extractedParts)
               /\ run.matchedParts[e].importedId
                      = run.extractedParts[run.origin[e]].identifier

CatalogIndex(entry, parts) ==
    LET hits == {i \in 1..Len(parts) : parts[i].id = entry.id}
    IN  IF hits = {} THEN 0 ELSE CHOOSE i \in hits : TRUE

C9_Witness ==
    /\ run.status = "done"
    /\ run.chunks >= 2
    /\ \E e1, e2 \in 1..Len(run.matchedParts) :
          /\ e1 < e2
          /\ CatalogIndex(run.matchedParts[e1], run.partsData) >
                 CatalogIndex(run.matchedParts[e2], run.partsData)
          /\ CatalogIndex(run.matchedParts[e2], run.partsData) > 0

\* The entries of the candidates other than the null records, in input order.
RECURSIVE EntriesOfOthers(_, _)
EntriesOfOthers(extractedParts, parts) ==
    IF extractedParts = <<>> THEN <<>>
    ELSE LET part == Head(extractedParts)
             rest == EntriesOfOthers(Tail(extractedParts), parts)
         IN  IF part = NullCandidate THEN rest
             ELSE LET m == enhancedFuzzyMatch(part.identifier, parts)
                  IN  <<IF m # NullResult THEN matchedEntry(m, part) ELSE newEntry(part)>>
                      \o rest

\* C10: a candidate whose processing raises an error is skipped and never
\* aborts the batch: the call is never left by an exception, and a call that
\* has ended holds exactly the entries of the other candidates, in input
\* order, with matchedCount + newCount equal to their number.
C10_ErrorSkipped ==
    /\ run.status # "aborted"
    /\ (run.status \in {"waiting", "done"} /\ run.processedCount = Len(run.extractedParts)) =>
           /\ run.matchedParts = EntriesOfOthers(run.extractedParts, run.partsData)
           /\ run.matchedCount + run.newCount = Len(run.matchedParts)

-----------------------------------------------------------------------------
(* Claims about the entries of a reconciliation *)

IsNewEntry(p) == "isNew" \in DOMAIN p /\ p.isNew

PriceFields ==
    {"guidePrice", "factoryPrice", "servicePrice",
     "guidePriceTaxed", "factoryPriceTaxed", "servicePriceTaxed"}

\* The entries the call has built from candidate o of its list.
EntriesFrom(r, o) == {e \in 1..Len(r.origin) : r.origin[e] = o}

\* The candidates the call has gone through, null records aside.
Done(r) ==
    {o \in 1..Min(r.processedCount, Len(r.extractedParts)) :
        r.extractedParts[o] # NullCandidate}

\* The quantity of a candidate, 1 when it has none.
QuantityOf(part) == IF part.quantity = 0 THEN 1 ELSE part.quantity

\* The provisional entry of C11, with the canonical prices in `zeroed` at 0.
IsProvisional(entry, part, zeroed) ==
    /\ IsNewEntry(entry)
    /\ entry.drawingNumber = part.identifier
    /\ entry.id = <<"NEW_">> \o String(part.identifier)
    /\ entry.quantity = QuantityOf(part)
    /\ \A f \in zeroed : entry[f] = 0

ProvisionalEntries(r, zeroed) ==
    \A o \in Done(r) :
        FirstTier(r.extractedParts[o].identifier, r.partsData) = 0 =>
            /\ Cardinality(EntriesFrom(r, o)) = 1
            /\ \A e \in EntriesFrom(r, o) :
                   IsProvisional(r.matchedParts[e], r.extractedParts[o], zeroed)

\* C11: a candidate that matches no catalog part at any of the four tiers
\* yields exactly one provisional entry: isNew, drawingNumber the candidate
\* identifier, id "NEW_" followed by the identifier, the candidate's quantity
\* (1 when it has none), and all six canonical price fields 0 whatever the
\* candidate's other fields are. Stated of every step of a call.
C11_ProvisionalEntry ==
    [][run' # run => ProvisionalEntries(run', PriceFields)]_vars

\* The provisional entry is as C11 says in every field but servicePriceTaxed,
\* which holds the candidate's unitPrice (0 when it has none).
Provisional_ServicePriceTaxedIsUnitPrice ==
    [][run' # run =>
          /\ ProvisionalEntries(run', PriceFields \ {"servicePriceTaxed"})
          /\ \A e \in 1..Len(run'.matchedParts) :
                IsNewEntry(run'.matchedParts[e]) =>
                    run'.matchedParts[e].servicePriceTaxed
                        = run'.extractedParts[run'.origin[e]].unitPrice]_vars

\* The matched entry of C12 for a candidate whose first tier with a hit is k.
IsMatched(entry, part, k, parts) ==
    /\ \E i \in TierHits(TierOrder[k], part.identifier, parts) :
          \A f \in DOMAIN parts[i] : entry[f] = parts[i][f]
    /\ entry.importedId = part.identifier
    /\ entry.quantity = QuantityOf(part)
    /\ entry.importedPrice = part.unitPrice
    /\ entry.importedRemark = part.note
    /\ entry.matchType = TierOrder[k]

MatchedEntries(r) ==
    \A o \in Done(r) :
        LET k == FirstTier(r.extractedParts[o].identifier, r.partsData)
        IN  k # 0 =>
               /\ Cardinality(EntriesFrom(r, o)) = 1
               /\ \A e \in EntriesFrom(r, o) :
                      IsMatched(r.matchedParts[e], r.extractedParts[o], k, r.partsData)

NewEntryCount(r) ==
    Cardinality({e \in 1..Len(r.matchedParts) : IsNewEntry(r.matchedParts[e])})

Scenario(r) ==
    (r.extractedParts = ScenarioCandidates /\ HasPart(r.partsData, sampleData[1])) =>
        /\ Len(r.matchedParts) = 2
        /\ r.matchedParts[1].matchType = "caseInsensitive"
        /\ r.matchedParts[1].quantity = 2
        /\ \A f \in PriceFields : r.matchedParts[1][f] = sampleData[1][f]
        /\ r.matchedParts[1].id = <<"ZB0001">>
        /\ IsNewEntry(r.matchedParts[2])
        /\ r.matchedParts[2].quantity = 5
        /\ r.matchedCount = 1 /\ r.newCount = 1

\* C12: a candidate that matches a catalog part yields an entry that holds
\* every field of that part unchanged (id, drawingNumber, name, six prices,
\* note, date) plus the candidate identifier, the candidate quantity (1 when
\* it has none), its unitPrice as price override, its note, and the winning
\* tier; the step that completes a run commits the entries and reports the
\* matched and the new counts. In the end-to-end scenario entry 1 is
\* caseInsensitive with quantity 2 and ZB0001's prices, entry 2 is new with
\* quantity 5, matchedCount = 1 and newCount = 1.
C12_MatchedEntry ==
    [][run' # run =>
          /\ MatchedEntries(run')
          /\ run'.status = "done" =>
                /\ selectedParts' = run'.matchedParts
                /\ run'.newCount = NewEntryCount(run')
                /\ run'.matchedCount = Len(run'.matchedParts) - run'.newCount
                /\ infoMessage' = <<"imported", Len(run'.matchedParts),
                                    run'.matchedCount, run'.newCount>>
                /\ Scenario(run')]_vars

C12_Witness ==
    /\ run.status = "done"
    /\ run.extractedParts = ScenarioCandidates
    /\ run.partsData = sampleData
    /\ selectedParts = run.matchedParts

-----------------------------------------------------------------------------
(* Claims about identity within the selection and within a batch *)

\* C13: in every reachable state no two entries of the selection have the
\* same id, whatever reconciliation runs, select/deselect toggles, removals
\* and edits led to it.
C13_SelectionIdsUnique == UniqueIds(selectedParts)

\* The handlers that edit a selection (toggle, removal, quantity, price,
\* review, clear) keep its ids pairwise distinct when they were distinct and
\* the catalog's ids are.
Selection_EditsKeepIdsUnique ==
    [][(/\ run' = run /\ lastOp' = lastOp
        /\ UniqueIds(selectedParts) /\ UniqueIds(partsData))
          => UniqueIds(selectedParts')]_vars

\* The first candidate of the list that has the identifier of candidate o.
FirstWith(extractedParts, o) ==
    CHOOSE i \in 1..o :
        /\ extractedParts[i].identifier = extractedParts[o].identifier
        /\ \A j \in 1..(i - 1) : extractedParts[j].identifier # extractedParts[o].identifier

\* The imported price and note of an entry: a provisional entry keeps them in
\* servicePriceTaxed and note, a matched one in importedPrice and importedRemark.
ImportedPriceOf(entry) ==
    IF IsNewEntry(entry) THEN entry.servicePriceTaxed ELSE entry.importedPrice
ImportedNoteOf(entry) ==
    IF IsNewEntry(entry) THEN entry.note ELSE entry.importedRemark

\* C14: the entries of a completed run have pairwise-distinct imported
\* identifiers, and each carries the quantity, price and note of the first
\* candidate of the batch with that identifier, whatever path started the run.
C14_BatchDeduplicated ==
    (run.status = "done" /\ WellFormed(run.extractedParts)) =>
        /\ \A e1, e2 \in 1..Len(run.matchedParts) :
              run.matchedParts[e1].importedId = run.matchedParts[e2].importedId => e1 = e2
        /\ \A e \in 1..Len(run.matchedParts) :
              LET first == run.extractedParts[FirstWith(run.extractedParts, run.origin[e])]
              IN  /\ run.matchedParts[e].quantity = QuantityOf(first)
                  /\ ImportedPriceOf(run.matchedParts[e]) = first.unitPrice
                  /\ first.note # <<>> => ImportedNoteOf(run.matchedParts[e]) = first.note
                  /\ run.matchedParts[e].importedId = first.identifier

-----------------------------------------------------------------------------
(* Claims about the extractors *)

Extracted(kind) == extractOutput # NotRun /\ extractInput.kind = kind

DistinctIdentifiers(candidates) ==
    \A i, j \in 1..Len(candidates) :
        i # j => candidates[i].identifier # candidates[j].identifier

\* The cells of a workbook that hold an identifier, as <<sheet, row, column>>.
IdentifierCells(sheets) ==
    {<<n, p[1], p[2]>> : n \in 1..Len(sheets), p \in CellPositions} \cap
    {q \in (1..Len(sheets)) \X (0..4) \X (0..1) :
        /\ <<q[2], q[3]>> \in DOMAIN sheets[q[1]].cells
        /\ looksLikeIdentifier(cellValue(sheets[q[1]].cells[<<q[2], q[3]>>]))}

\* Scan order: sheets in workbook order, rows top down, columns left to right.
ScansBefore(p, q) ==
    \/ p[1] < q[1]
    \/ p[1] = q[1] /\ p[2] < q[2]
    \/ p[1] = q[1] /\ p[2] = q[2] /\ p[3] < q[3]

ValueAt(sheets, q) == cellValue(sheets[q[1]].cells[<<q[2], q[3]>>])

\* The single candidate a line yields when it is the whole text.
Alone(line) == extractPartsFromPdfText(<<line>>)

\* The lines of a text that, alone, yield the identifier id.
LinesYielding(lines, id) ==
    {n \in 1..Len(lines) : Alone(lines[n]) # <<>> /\ Alone(lines[n])[1].identifier = id}

First(S) == CHOOSE n \in S : \A m \in S : n <= m

\* C15: both extractors return candidates with pairwise-distinct identifiers
\* and keep the first occurrence in scan order. Workbook: every identifier
\* cell's value is the identifier of exactly one candidate, and the note of
\* that candidate names the first cell in scan order holding it. Text: an
\* identifier that a line yields on its own is the identifier of exactly one
\* candidate, taken from no later line than the first such line and, when
\* taken from that line, carrying its name and quantity; two lines that both
\* yield the identifier give the candidate of the first.
C15_FirstOccurrenceKept ==
    /\ Extracted("workbook") =>
          LET sheets == extractInput.sheets
              out == extractOutput.partCandidates
          IN  /\ DistinctIdentifiers(out)
              /\ \A q \in IdentifierCells(sheets) :
                    LET same == {p \in IdentifierCells(sheets) :
                                    ValueAt(sheets, p) = ValueAt(sheets, q)}
                        first == CHOOSE p \in same : \A o \in same \ {p} : ScansBefore(p, o)
                    IN  \E e \in 1..Len(out) :
                           /\ out[e].identifier = Str(ValueAt(sheets, q))
                           /\ out[e].note = <<"sheet", sheets[first[1]].name, "cell">>
                                               \o encode_cell(first[2], first[3])
              /\ \A e \in 1..Len(out) :
                    \E q \in IdentifierCells(sheets) :
                       out[e].identifier = Str(ValueAt(sheets, q))
    /\ Extracted("text") =>
          LET lines == extractInput.lines
              out == extractOutput.partCandidates
          IN  /\ DistinctIdentifiers(out)
              /\ \A n \in 1..Len(lines) :
                    Alone(lines[n]) # <<>> =>
                       LET id == Alone(lines[n])[1].identifier
                           first == First(LinesYielding(lines, id))
                       IN  \E e \in 1..Len(out) :
                              /\ out[e].identifier = id
                              /\ extractOutput.fromLine[e] <= first
                              /\ extractOutput.fromLine[e] = first
                                    => out[e] = Alone(lines[first])[1]
              /\ (/\ Len(lines) = 2
                  /\ Alone(lines[1]) # <<>>
                  /\ LinesYielding(lines, Alone(lines[1])[1].identifier) = {1, 2})
                    => SelectSeq(out, LAMBDA c :
                                     c.identifier = Alone(lines[1])[1].identifier)
                          = Alone(lines[1])

\* A workbook with the same code in A1 and B5 has yielded one candidate, from A1.
C15_Witness ==
    /\ Extracted("workbook")
    /\ Len(extractInput.sheets) = 1
    /\ {<<0, 0>>, <<4, 1>>} \subseteq DOMAIN extractInput.sheets[1].cells
    /\ extractInput.sheets[1].cells[<<0, 0>>].v = Str(CodeNJ313)
    /\ extractInput.sheets[1].cells[<<4, 1>>].v = Str(CodeNJ313)
    /\ Len(SelectSeq(extractOutput.partCandidates,
                     LAMBDA c : c.identifier = Str(CodeNJ313))) = 1
    /\ \E e \in 1..Len(extractOutput.partCandidates) :
          /\ extractOutput.partCandidates[e].identifier = Str(CodeNJ313)
          /\ extractOutput.partCandidates[e].note = <<"sheet", "Sheet1", "cell", "A", "1">>

\* The same for a text: the bearing code on two lines, the candidate of the first.
Text_TwoLinesOneCandidate ==
    /\ Extracted("text")
    /\ extractInput.lines = <<BearingLine, BearingAgainLine>>
    /\ Len(extractOutput.partCandidates) = 1
    /\ extractOutput.partCandidates[1].name = <<"U8F74", "U627F">>
    /\ extractOutput.partCandidates[1].quantity = 5

\* The three shapes an identifier never has.
DateShaped(s) ==
    /\ Len(s) = 10
    /\ s[5] = "-" /\ s[8] = "-"
    /\ \A i \in {1, 2, 3, 4, 6, 7, 9, 10} : s[i] \in DigitClass
DigitsOnly(s) == s # <<>> /\ \A i \in 1..Len(s) : s[i] \in DigitClass
PhoneShaped(s) ==
    /\ Len(s) = 11
    /\ s[1] = "1"
    /\ s[2] \in {"3", "4", "5", "6", "7", "8", "9"}
    /\ \A i \in 3..11 : s[i] \in DigitClass

\* C16: text extraction never returns a candidate whose identifier is a date
\* dddd-dd-dd, digits only or a phone number shape, whatever matched it; the
\* date line yields no candidate and the order-number line at most one.
C16_NoDateDigitsPhone ==
    Extracted("text") =>
        LET out == extractOutput.partCandidates
        IN  /\ \A e \in 1..Len(out) :
                  /\ ~DateShaped(out[e].identifier.v)
                  /\ ~DigitsOnly(out[e].identifier.v)
                  /\ ~PhoneShaped(out[e].identifier.v)
            /\ extractInput.lines = <<DateLine>> => out = <<>>
            /\ extractInput.lines = <<OrderLine>> => Len(out) <= 1

\* A line that starts with a date and holds a bearing code has yielded the
\* bearing code only, and the date line alone has yielded nothing.
C16_Witness ==
    /\ Extracted("text")
    /\ extractInput.lines = <<DateLine, DatedLine>>
    /\ Len(extractOutput.partCandidates) = 1
    /\ extractOutput.partCandidates[1].identifier = Str(CodeNJ313)
    /\ extractOutput.fromLine = <<2>>

-----------------------------------------------------------------------------
(* Claims about the upload handlers *)

Ran(name) == lastOp' # lastOp /\ lastOp'.name = name

\* The collaborator threw or the file is of no supported kind.
ExtractionFails(file) ==
    file # ReadFailed /\ file.content \in {TextThrew, ParseThrew, NotParsed}

\* The handler went on with a placeholder list and reconciled it into the
\* selection, without reporting an error.
ContinuedWithPlaceholder ==
    /\ run'.status = "done"
    /\ run'.extractedParts \in {FallbackParts, getMockPartsData}
    /\ selectedParts' = run'.matchedParts
    /\ Len(selectedParts') = Len(run'.extractedParts)
    /\ view' = "quotation"
    /\ loading' = FALSE
    /\ alerts' = alerts

\* C17: when extraction fails, the customer document upload and the admin
\* advanced upload both continue with a fixed non-empty placeholder list that
\* is reconciled into the selection, and no error stop is reported.
C17_PlaceholderOnFailure ==
    [][(\/ Ran("handleDocumentUpload") /\ ExtractionFails(lastOp'.input)
        \/ Ran("handleAdvancedQuotationUpload") /\ isAdmin /\ ExtractionFails(lastOp'.input))
          => ContinuedWithPlaceholder]_vars

\* The part of it that is about the document upload.
DocumentUpload_PlaceholderOnFailure ==
    [][(Ran("handleDocumentUpload") /\ ExtractionFails(lastOp'.input))
          => ContinuedWithPlaceholder]_vars

DocumentUpload_PlaceholderUsed ==
    /\ lastOp.name = "handleDocumentUpload"
    /\ ExtractionFails(lastOp.input)
    /\ run.status = "done"
    /\ run.extractedParts = getMockPartsData
    /\ Len(selectedParts) = 12

\* No item of the customer list yields an identifier (or there is no list).
NoRowYieldsIdentifier(file) ==
    /\ file # ReadFailed
    /\ \/ file \in {ParseThrew, NoRef}
       \/ \A i \in 1..Len(customerDataOf(file)) : importedIdOf(customerDataOf(file)[i]) = <<>>

\* C18: a customer list from which no row yields an identifier is a hard
\* stop: no reconciliation is started, the selection, the view and the
\* current page keep their values, one error is reported and loading is
\* false afterwards.
C18_HardStop ==
    [][(Ran("handleCustomerQuotationUpload") /\ NoRowYieldsIdentifier(lastOp'.input))
          => /\ selectedParts' = selectedParts
             /\ view' = view
             /\ currentPage' = currentPage
             /\ run' = run
             /\ alerts' = alerts + 1
             /\ loading' = FALSE]_vars

\* A list of two rows without identifier was uploaded while a part was
\* selected: the part is still selected and the error was reported.
C18_Witness ==
    /\ lastOp.name = "handleCustomerQuotationUpload"
    /\ lastOp.at = 2
    /\ lastOp.input.outcome = "json"
    /\ Len(lastOp.input.rows) = 2
    /\ NoRowYieldsIdentifier(lastOp.input)
    /\ Len(selectedParts) = 1
    /\ view = "table"
    /\ run = IdleRun
    /\ alerts = 1
    /\ loading = FALSE

\* C19: in every reachable state no two catalog parts have the same id.
C19_CatalogIdsUnique == UniqueIds(partsData)

\* C20: once the catalog is loaded, no operation changes it while admin mode
\* is off.
C20_CatalogAdminOnly == [][~isAdmin => partsData' = partsData]_vars

-----------------------------------------------------------------------------
(* Claims about the line gate and the quantity of a tabular candidate *)

\* The line starts, after blanks, with an ordinal such as "1." or a bullet.
StartsWithMarker(line) ==
    LET rest == trimStart(line)
        digits == RunLength(rest, 1, DigitClass, -1)
    IN  /\ rest # <<>>
        /\ \/ rest[1] \in {"-", "*", "U2022"}
           \/ digits >= 1 /\ Len(rest) > digits /\ rest[digits + 1] = "."

\* The line holds three upper-case letters or digits in a row.
HasUpperRun(line) ==
    \E i \in 1..(Len(line) - 2) :
        \A j \in i..(i + 2) : line[j] \in UpperDigitClass

Considered(line) == StartsWithMarker(line) \/ HasUpperRun(line)

\* C26: text extraction takes a candidate only from a line that starts with
\* a list marker or holds a run of at least three upper-case letters or
\* digits; every other line yields nothing.
C26_OnlyMarkedLinesYield ==
    Extracted("text") =>
        \A e \in 1..Len(extractOutput.fromLine) :
            Considered(extractInput.lines[extractOutput.fromLine[e]])

\* The integer a cell value stands for, when it is a number or the decimal
\* text of one; 0 otherwise.
QuantityRange == (0 - 9)..99
AsInteger(v) ==
    IF \E n \in QuantityRange : trim(String(v)) = decimal(n)
    THEN CHOOSE n \in QuantityRange : trim(String(v)) = decimal(n)
    ELSE 0

\* The quantity of the candidate of identifier cell q: the positive integer
\* in its right neighbour inside the sheet range, and 1 otherwise.
RightNeighbourQuantity(sheets, q) ==
    LET cells == sheets[q[1]].cells
        right == <<q[2], q[3] + 1>>
    IN  IF /\ \E p \in DOMAIN cells : p[2] >= q[3] + 1
           /\ right \in DOMAIN cells
           /\ AsInteger(cells[right].v) > 0
        THEN AsInteger(cells[right].v)
        ELSE 1

\* C25: every candidate of tabular extraction has a positive integer as its
\* quantity: the integer in the cell to the right of its identifier cell
\* when that cell is inside the sheet range and holds a positive integer,
\* and 1 when there is no right neighbour or it is empty, not a number,
\* zero or negative.
C25_QuantityPositive ==
    Extracted("workbook") =>
        LET sheets == extractInput.sheets
            out == extractOutput.partCandidates
        IN  \A e \in 1..Len(out) :
               /\ out[e].quantity \in Nat \ {0}
               /\ \E q \in IdentifierCells(sheets) :
                     /\ out[e].identifier = Str(ValueAt(sheets, q))
                     /\ out[e].note = <<"sheet", sheets[q[1]].name, "cell">>
                                         \o encode_cell(q[2], q[3])
                     /\ out[e].quantity = RightNeighbourQuantity(sheets, q)

-----------------------------------------------------------------------------
(* Claim about the fuzzy tier and the tiers above it *)

\* C28: the fuzzy tier subsumes the three tiers above it: the matcher
\* returns none exactly when the candidate's fuzzy key differs from the fuzzy
\* key of every catalog drawing number, and two identifiers with equal exact,
\* case-insensitive or no-space keys have equal fuzzy keys.
C28_FuzzySubsumes ==
    lastMatch # NotRun =>
        /\ lastMatch = NullResult <=> TierHits("fuzzy", matchInput, partsData) = {}
        /\ \A k \in 1..3 :
               TierHits(TierOrder[k], matchInput, partsData)
                   \subseteq TierHits("fuzzy", matchInput, partsData)

-----------------------------------------------------------------------------
(* Claims about the selection and the quotation view *)

HasId(selection, id) == \E i \in 1..Len(selection) : selection[i].id = id

OtherEntries(selection, id) == SelectSeq(selection, LAMBDA p : p.id # id)

\* after is before with part toggled: the entries of other ids as they
\* were, the entries of part's id gone when there was one, and otherwise
\* one copy of part with quantity 1 at the end.
ToggledBy(before, after, part) ==
    /\ OtherEntries(after, part.id) = OtherEntries(before, part.id)
    /\ IF HasId(before, part.id) THEN ~HasId(after, part.id)
       ELSE /\ Len(after) = Len(before) + 1
            /\ after[Len(after)] = [quantity |-> 1] @@ part

\* C24: handleSelectPart(part) appends one copy of part with quantity 1 when
\* no entry has its id and removes the entry of that id otherwise; entries of
\* other ids keep content and order, and toggling a part that was not
\* selected a second time gives the selection back.
C24_ToggleById ==
    [][handleSelectPart =>
          \E k \in 1..Len(partsData) :
             /\ ToggledBy(selectedParts, selectedParts', partsData[k])
             /\ ~HasId(selectedParts, partsData[k].id) =>
                    toggleSelection(selectedParts', partsData[k]) = selectedParts]_vars

\* A part has been selected by hand next to the entries a run installed.
C24_Witness ==
    /\ run.status = "done"
    /\ view = "table"
    /\ Len(selectedParts) >= 2
    /\ "matchType" \in DOMAIN selectedParts[1]
    /\ "matchType" \notin DOMAIN selectedParts[Len(selectedParts)]
    /\ "isNew" \notin DOMAIN selectedParts[Len(selectedParts)]
    /\ selectedParts[Len(selectedParts)].quantity = 1

Reviewed(p) == "humanReviewed" \in DOMAIN p /\ p.humanReviewed = TRUE

\* C22: whenever the quotation view is shown, every matched entry of the
\* selection whose match kind is not exact carries humanReviewed = true.
C22_ReviewedBeforeQuotation ==
    view = "quotation" =>
        \A i \in 1..Len(selectedParts) :
            NeedsReview(selectedParts[i]) => Reviewed(selectedParts[i])

-----------------------------------------------------------------------------
(* Claims about a run and a catalog that changes meanwhile *)

Provisional(p) == "isNew" \in DOMAIN p

\* C30: every selection entry that is not a provisional new part has the id
\* of a part of the current catalog, in every reachable state.
C30_SelectionInCatalog ==
    \A i \in 1..Len(selectedParts) :
        ~Provisional(selectedParts[i]) => HasId(partsData, selectedParts[i].id)

\* The number of chunks of a list of n candidates.
ChunksOf(n) == (n + batchSize - 1) \div batchSize

Completed(r) == r.status = "done"

\* C27: a run over well-formed candidates that waits for a continuation
\* eventually completes when continuations are eventually run; a completed
\* run has called the completion step once, after all its chunks and all its
\* candidates; the completion step installs the run's entries as the
\* selection, shows the quotation view, page 1, loading off; and nothing of
\* a completed run is processed afterwards.
C27_RunCompletes ==
    /\ (run.status = "waiting" /\ WellFormed(run.extractedParts)) ~> Completed(run)
    /\ [](Completed(run) =>
             /\ run.finishCalls = 1
             /\ run.chunks = ChunksOf(Len(run.extractedParts))
             /\ run.processedCount = Len(run.extractedParts)
             /\ Len(run.matchedParts) = Len(run.extractedParts))
    /\ [][(~Completed(run) /\ Completed(run')) =>
             /\ selectedParts' = run'.matchedParts
             /\ view' = "quotation"
             /\ currentPage' = 1
             /\ loading' = FALSE]_vars
    /\ [][Completed(run) => run' = run]_vars

\* A run over 41 well-formed candidates has completed after its third chunk.
C27_Witness ==
    /\ Completed(run)
    /\ Len(run.extractedParts) = MaxCandidates
    /\ WellFormed(run.extractedParts)
    /\ run.chunks = 3
    /\ selectedParts = run.matchedParts
    /\ view = "quotation"

-----------------------------------------------------------------------------
(* Claim about the stored catalog *)

\* C23: after every operation that changes the catalog in memory, loading
\* the session again from the store gives exactly that catalog (an empty one
\* after a clear), also when the write to the store failed.
C23_StoreMirrorsCatalog ==
    [][partsData' # partsData => loadedCatalog(stored') = partsData']_vars

-----------------------------------------------------------------------------
(* Claims about overlapping runs *)

\* The closure a call on this list and catalog has after its first k
\* candidates when nothing else happens.
Alone_upTo(list, catalog, k) == processLoop(NewRun(list, catalog, "none"), 1, k)

\* The accumulator and the counters of closure c are those of the run alone.
OwnAccumulator(c) ==
    LET alone == Alone_upTo(c.extractedParts, c.partsData, c.processedCount)
    IN  /\ c.matchedParts = alone.matchedParts
        /\ c.matchedCount = alone.matchedCount
        /\ c.newCount = alone.newCount

\* The step has installed the complete list of the finished closure c and
\* reported its counters.
Installs(c) ==
    /\ Completed(c)
    /\ c.processedCount = Len(c.extractedParts)
    /\ selectedParts' = c.matchedParts
    /\ infoMessage' = <<"imported", Len(c.matchedParts), c.matchedCount, c.newCount>>

\* C21: when two runs overlap, each appends to its own accumulator and
\* counters only, and a step of a run changes the selection only by
\* installing the complete list of the run that has just finished, with the
\* counters of that run in the message.
C21_RunsDoNotMix ==
    /\ [](OwnAccumulator(run) /\ OwnAccumulator(earlier))
    /\ [][((run' # run \/ earlier' # earlier) /\ selectedParts' # selectedParts) =>
             \/ run' # run /\ Installs(run')
             \/ earlier' # earlier /\ Installs(earlier')]_vars

\* Two runs have overlapped; the one started first finished last and its
\* list, which differs from the other run's, is the selection.
C21_Witness ==
    /\ Completed(run) /\ Completed(earlier)
    /\ run.chunks >= 2 /\ earlier.chunks >= 2
    /\ selectedParts = earlier.matchedParts
    /\ run.matchedParts # earlier.matchedParts
    /\ infoMessage = <<"imported", Len(earlier.matchedParts), earlier.matchedCount,
                       earlier.newCount>>

\* C29: a completed run has classified all its candidates against the
\* catalog it was started with, whatever the catalog has become meanwhile:
\* its entries and counters are those of the whole list processed in one
\* step against that catalog.
C29_SnapshotCatalog ==
    \A c \in {run, earlier} :
        Completed(c) =>
            LET whole == Alone_upTo(c.extractedParts, c.partsData, Len(c.extractedParts))
            IN  /\ c.matchedParts = whole.matchedParts
                /\ c.matchedCount = whole.matchedCount
                /\ c.newCount = whole.newCount

\* A catalog import between two chunks brought a part that a candidate of
\* the later chunk would match, and the completed run has it as a new part.
C29_Witness ==
    /\ Completed(run)
    /\ run.chunks >= 2
    /\ lastOp.name = "handleFileUploadWrapper"
    /\ Len(partsData) > Len(run.partsData)
    /\ \E e \in 1..Len(run.matchedParts) :
          /\ run.origin[e] > batchSize
          /\ Provisional(run.matchedParts[e])
          /\ enhancedFuzzyMatch(run.matchedParts[e].importedId, partsData) # NullResult

====
